---- MODULE Spec2Model ----
(***************************************************************************)
(* State-machine model of the WebGPU scene viewer: the canvas host's       *)
(* interaction controller (isInteracting / debounce timer), the per-mesh   *)
(* hover / pick handlers, the scene controls (focusModel, animateCameraTo), *)
(* the sequential model loader with its UV repair, the bounds functions,   *)
(* and the mount / init / teardown of the canvas host.                     *)
(*                                                                         *)
(* Lengths are integers in centimetres (1 m = 100).  Raw asset geometry is *)
(* in integer asset units.                                                 *)
(***************************************************************************)
EXTENDS Integers, Sequences, FiniteSets, TLC

\* ------------------------------------------------------------------ bounds
\* meshes with geometry an asset can contain
MaxMeshes == 1
\* pointers (mouse, touches) the browser reports on the canvas
NumPointers == 1
\* slots of the browser's timer table
MaxTimers == 2
\* picks that reach focusModel and start a camera animation
MaxFocus == 1
\* direct calls of the exported focusModel and resetView
MaxCalls == 2
\* child meshes under the node a bounds function is called on
MaxChildMeshes == 3
\* vertices in a mesh's position buffer
MaxVertices == 2
\* runs of the UV repair on the same mesh
MaxRepairs == 2
\* consecutive applySnap runs the model follows after one camera movement
MaxSnapRuns == 3
\* animation frames the browser hands out to the FPS loop
MaxFrames == 8

\* ------------------------------------------------------- program constants
\* animateCameraTo: totalFrames
TotalFrames == 30
\* frames the render loop advances a running animation per modelled tick
FrameStep == 15
\* camera limits of initScene and of the scene controls, in cm
InitLowerRadius == 5
InitUpperRadius == 150000
DEFAULT_LOWER_RADIUS == 20
DEFAULT_UPPER_RADIUS == 150000
\* initial camera radius / target height, and the loader's final framing
InitRadius == 15000
InitTargetY == 2000
\* resetView: target height and radius, in cm
ResetTargetY == 2000
ResetRadius == 15000
\* SceneManager.focusModel: minimum radius, in cm
SMMinFocusRadius == 6000
\* SceneManager.frameAll: default target height and minimum radius, in cm
SMDefaultTargetY == 1000
SMMinRadius == 10000
\* focusModel: minimum lift of the target and minimum radius, in cm
MinLift == 150
MinFocusRadius == 200

Vec(a, b, c) == [x |-> a, y |-> b, z |-> c]

\* MODELS registry; rotY counts quarter turns about Y (Math.PI * 0.5 = 1)
MODELS ==
  << [name |-> "building", position |-> Vec(-3000, 0, 0), rotY |-> 0,
      fitSize |-> 4000, pickable |-> TRUE],
     [name |-> "bridge", position |-> Vec(3000, 40, 0), rotY |-> 1,
      fitSize |-> 6000, pickable |-> TRUE] >>

ModelIdx == 1..Len(MODELS)
ModelNames == {MODELS[i].name : i \in ModelIdx}

\* a mesh is identified by its asset (index in MODELS) and its index in it
MeshIds == ModelIdx \X (1..MaxMeshes)
NoMesh == <<0, 0>>
Pointers == 1..NumPointers
TimerIds == 1..MaxTimers
\* JS null for the timer handle (setTimeout handles are positive)
Null == 0

\* raw world bounds an asset's geometry can have, in asset units: a slab
\* away from the origin and a single point
RawBoxes ==
  { [min |-> Vec(2, -2, 0), max |-> Vec(6, 0, 2)],
    [min |-> Vec(0, 0, 0), max |-> Vec(0, 0, 0)] }

\* the boxes the loaders are tried on by themselves: also a centred cube
LoadBoxes == RawBoxes \cup {[min |-> Vec(-1, -1, -1), max |-> Vec(1, 1, 1)]}

\* descriptor lists loadModels can be handed besides MODELS: one that
\* repeats a name, and one with a footprint of 1600 m
DuplicateModels == <<MODELS[1], [MODELS[2] EXCEPT !.name = MODELS[1].name]>>
WideModels == <<[MODELS[1] EXCEPT !.fitSize = 160000], MODELS[2]>>
ConfigLists == {MODELS, DuplicateModels, WideModels}

Max2(a, b) == IF a >= b THEN a ELSE b
Max3(a, b, c) == Max2(a, Max2(b, c))

VARIABLES
  isInteracting,       \* module-level flag
  interactionTimeout,  \* module-level timer handle, Null when none
  lastHoveredMesh,     \* module-level hovered mesh, NoMesh when none
  timers,              \* the browser's pending timeouts (set of handles)
  staleTimers,         \* history: pending timeouts armed before the latest
                       \*   setInteracting(true)
  renderOutline,       \* mesh.renderOutline of every mesh
  cursor,              \* the cursor document.body.style.cursor shows; the
                       \*   unset style of a fresh page shows "default"
  pointersDown,        \* pointers pressed on the canvas and not released
  pointerOverMesh,     \* the mesh the engine last picked under the pointer
  dispatch,            \* handlers still to run for the event being dispatched
  focused,             \* picks that reached focusModel and moved the camera
  cam,                 \* camera: target, radius, radius limits
  anim,                \* the scene's running animatables of the camera, in
                       \*   the order they were begun
  status,              \* per model: progress of its iteration of loadModels
  ldIdx,               \* loadModels: position of the for..of loop
  assets,              \* per model: the loaded container's geometry
  anchors,             \* name -> anchor chain registry (anchors / anchorsRef)
  handlers,            \* meshes that have an ActionManager registered
  configs,             \* the descriptor list loadModels was called with
  sceneNodes,          \* per descriptor: the anchor / scaler / offset nodes
                       \*   its load created in the scene
  calls,               \* history: the direct calls of focusModel and
                       \*   resetView so far, and whether one was animating
  wireframe,           \* material.wireframe of the scene's materials
  lastOp,              \* history: the input, timer or mesh handler that just ran
  smStatus,            \* SceneManager.loadModels: per model, its iteration
  smIdx,               \* SceneManager.loadModels: position of the for..of loop
  smAnchors,           \* SceneManager.anchors (with the group of each anchor)
  smCam,               \* SceneManager.camera: target and radius
  bMeshes,             \* computeWorldBounds / computeLocalBounds: the boxes of
                       \*   the node's child meshes, in getChildMeshes order
  bResult,             \* what the bounds function returned, NotCalled before
  uvMesh,              \* UV repair: the mesh's position and UV buffers
  uvRuns,              \* history: one record per run of the UV repair
  host,                \* CanvasHost: the mount effect, initScene's position,
                       \*   cleanupFn, engineRef, the engine, the listeners,
                       \*   the scene references, the reported engine type
  smInit,              \* SceneManager.init: position, inited, engine, scene,
                       \*   the errors reported through onError
  gpu,                 \* navigator.gpu is defined
  second,              \* CanvasHost: a run of the mount effect after its
                       \*   cleanup, and the initScene call it makes
  smCall2,             \* SceneManager.loadModels: a second call's loop
  snap,                \* applySnap: snapRef.current, the camera target, the
                       \*   view-changed notification, history of its runs
  panel                \* ControlsPanel: the FPS effect, its rafId, the
                       \*   browser's pending animation frames, fps

hoverVars == <<lastHoveredMesh, renderOutline, cursor>>
timerVars == <<isInteracting, interactionTimeout, timers, staleTimers>>
pointerVars == <<pointersDown, pointerOverMesh, focused>>
camVars == <<cam, anim>>
loadVars == <<status, ldIdx, assets, anchors, handlers, configs, sceneNodes>>
ctlVars == <<calls, wireframe>>
smVars == <<smStatus, smIdx, smAnchors, smCam>>
boundsVars == <<bMeshes, bResult>>
uvVars == <<uvMesh, uvRuns>>
lcVars == <<host, smInit, gpu>>
auxVars == <<second, smCall2, snap, panel>>
extVars == <<boundsVars, uvVars, lcVars, auxVars>>
vars == <<hoverVars, timerVars, pointerVars, dispatch, camVars, loadVars, lastOp, smVars, ctlVars, extVars>>

NoAnim == <<>>
NoAsset == [n |-> 0]

\* ------------------------------------------------- interaction controller
TimerState == [flag |-> isInteracting, timeout |-> interactionTimeout, timers |-> timers]

\* a clearTimeout that leaves the timeout pending
ClearTimeout_Noop(ts, h) == ts

\* clearTimeout(h): removes h from the browser's table (no effect on null)
ClearTimeout(ts, h) == IF h # Null THEN ts \ {h} ELSE ts

\* setTimeout: the browser hands out a handle that is not pending
NewTimer(ts) == CHOOSE id \in TimerIds \ ts : \A j \in TimerIds \ ts : id <= j

\* setInteracting that forgets the handle without clearing the timeout
SetInteracting_NoClear(s, active) ==
  IF active
  THEN [flag |-> TRUE, timeout |-> Null, timers |-> s.timers]
  ELSE LET cleared == ClearTimeout(s.timers, s.timeout)
           id == NewTimer(cleared)
       IN [flag |-> s.flag, timeout |-> id, timers |-> cleared \cup {id}]

\* setInteracting(active), as a function of the controller's state
SetInteracting(s, active) ==
  IF active
  THEN [flag |-> TRUE,
        timeout |-> Null,
        timers |-> ClearTimeout(s.timers, s.timeout)]
  ELSE LET cleared == ClearTimeout(s.timers, s.timeout)
           id == NewTimer(cleared)
       IN [flag |-> s.flag, timeout |-> id, timers |-> cleared \cup {id}]

\* the browser can arm one more timeout
CanArm(s) == Cardinality(ClearTimeout(s.timers, s.timeout)) < MaxTimers

ApplyTimerState(s) ==
  /\ isInteracting' = s.flag
  /\ interactionTimeout' = s.timeout
  /\ timers' = s.timers

\* lastOp after a canvas input, the timer callback or a mesh handler: what
\* ran, on which mesh, and the flag it found; NoOp after any other step
Op(name, mesh) == [op |-> name, mesh |-> mesh, interacting |-> isInteracting]
NoOp == [op |-> "none", mesh |-> NoMesh, interacting |-> FALSE]

\* canvas "pointerdown" -> handlePointerDown
PointerDown(p) ==
  /\ dispatch = <<>>
  /\ p \notin pointersDown
  /\ pointersDown' = pointersDown \cup {p}
  /\ LET s == SetInteracting(TimerState, TRUE)
     IN /\ ApplyTimerState(s)
        /\ staleTimers' = s.timers
  /\ lastOp' = Op("pointerdown", NoMesh)
  /\ UNCHANGED <<smVars, ctlVars, extVars>>
  /\ UNCHANGED <<hoverVars, pointerOverMesh, focused, dispatch, camVars, loadVars>>

\* handlePointerUp, the listener of canvas "pointerup" and "pointerleave"
HandlePointerUp ==
  /\ CanArm(TimerState)
  /\ ApplyTimerState(SetInteracting(TimerState, FALSE))
  /\ staleTimers' = staleTimers \cap ClearTimeout(timers, interactionTimeout)

\* canvas "pointerup" after a drag, or with nothing pickable under the pointer
PointerUp(p) ==
  /\ dispatch = <<>>
  /\ p \in pointersDown
  /\ pointersDown' = pointersDown \ {p}
  /\ HandlePointerUp
  /\ lastOp' = NoOp
  /\ UNCHANGED <<smVars, ctlVars, extVars>>
  /\ UNCHANGED <<hoverVars, pointerOverMesh, focused, dispatch, camVars, loadVars>>

\* canvas "pointerleave": a pointer that is not captured by a press leaves
PointerLeave(p) ==
  /\ dispatch = <<>>
  /\ p \notin pointersDown
  /\ HandlePointerUp
  /\ lastOp' = NoOp
  /\ UNCHANGED <<smVars, ctlVars, extVars>>
  /\ UNCHANGED <<hoverVars, pointerVars, dispatch, camVars, loadVars>>

\* canvas "wheel" -> handleWheel: setInteracting(true); setInteracting(false)
Wheel ==
  /\ dispatch = <<>>
  /\ LET s1 == SetInteracting(TimerState, TRUE)
     IN /\ CanArm(s1)
        /\ ApplyTimerState(SetInteracting(s1, FALSE))
        /\ staleTimers' = s1.timers
  /\ lastOp' = Op("wheel", NoMesh)
  /\ UNCHANGED <<smVars, ctlVars, extVars>>
  /\ UNCHANGED <<hoverVars, pointerVars, dispatch, camVars, loadVars>>

\* a callback that forgets the handle and leaves the flag set
TimeoutCallback_KeepFlag(s) == [flag |-> s.flag, timeout |-> Null, timers |-> s.timers]

\* the callback given to setTimeout: isInteracting = false and the handle
\* is forgotten
TimeoutCallback(s) == [flag |-> FALSE, timeout |-> Null, timers |-> s.timers]

\* the timeout t expired: the browser drops it and runs its callback
TimerFire(t) ==
  /\ dispatch = <<>>
  /\ t \in timers
  /\ ApplyTimerState(TimeoutCallback([TimerState EXCEPT !.timers = timers \ {t}]))
  /\ staleTimers' = staleTimers \ {t}
  /\ lastOp' = Op("timer", NoMesh)
  /\ UNCHANGED <<smVars, ctlVars, extVars>>
  /\ UNCHANGED <<hoverVars, pointerVars, dispatch, camVars, loadVars>>

\* ------------------------------------------------------- scene controls
VAdd(a, b) == Vec(a.x + b.x, a.y + b.y, a.z + b.z)
VSub(a, b) == Vec(a.x - b.x, a.y - b.y, a.z - b.z)
VHalf(a) == Vec(a.x \div 2, a.y \div 2, a.z \div 2)

\* an anchor chain's uniform scale is targetSize / maxDim; den = 0 is Infinity
Finite(scale) == scale.den # 0
Scaled(scale, v) == (scale.num * v) \div scale.den

NoBounds == [ok |-> FALSE]

\* interval [lo, hi] of a local axis after scaler and offset
ScaledLo(a, axis) == Scaled(a.scale, a.box.min[axis] + a.offset[axis])
ScaledHi(a, axis) == Scaled(a.scale, a.box.max[axis] + a.offset[axis])

\* computeWorldBounds(anchor): the world box of the anchor's child meshes, or
\* NoBounds (null) when there is none or the accumulated box is not finite.
\* A rotation of a quarter turn about Y maps local (x, z) to world (z, -x).
ComputeWorldBounds(a) ==
  IF a.n = 0 \/ ~Finite(a.scale) THEN NoBounds
  ELSE LET lx == IF a.rotY = 0 THEN ScaledLo(a, "x") ELSE ScaledLo(a, "z")
           hx == IF a.rotY = 0 THEN ScaledHi(a, "x") ELSE ScaledHi(a, "z")
           lz == IF a.rotY = 0 THEN ScaledLo(a, "z") ELSE 0 - ScaledHi(a, "x")
           hz == IF a.rotY = 0 THEN ScaledHi(a, "z") ELSE 0 - ScaledLo(a, "x")
       IN [ok |-> TRUE,
           min |-> VAdd(a.position, Vec(lx, ScaledLo(a, "y"), lz)),
           max |-> VAdd(a.position, Vec(hx, ScaledHi(a, "y"), hz))]

\* focusModel's framing of a world box: lifted center and padded radius
FocusTarget(b) ==
  LET center == VHalf(VAdd(b.min, b.max))
      size == VSub(b.max, b.min)
  IN Vec(center.x, center.y + Max2(size.y \div 10, MinLift), center.z)

FocusRadius(b) ==
  LET size == VSub(b.max, b.min)
  IN Max2((Max3(size.x, size.y, size.z) * 11) \div 10, MinFocusRadius)

\* the two keyframe animations animateCameraTo builds, as one animatable
Animatable(c, target, radius) ==
  [fromT |-> c.target, toT |-> target, fromR |-> c.radius, toR |-> radius,
   frame |-> 0]

\* a beginAnimation that leaves the camera's running animatables running
BeginAnimation_KeepRunning(running, a) == Append(running, a)

\* scene.beginAnimation(cam, 0, totalFrames, false): stopCurrent defaults to
\* true, so the camera's running animatables are stopped first
BeginAnimation(running, a) == <<a>>

\* animateCameraTo(target, radius)
AnimateCameraTo(c, target, radius) ==
  BeginAnimation(anim, Animatable(c, target, radius))

\* the store's snapMeters (0.5 m), which no control changes
SnapMeters == 50

\* Math.round(v / snap) * snap
SnapCoord(v) == ((v + SnapMeters \div 2) \div SnapMeters) * SnapMeters

\* applySnap, run whenever the view matrix changed: target X/Z go to the grid
ApplySnap(t) == IF SnapMeters <= 0 THEN t ELSE Vec(SnapCoord(t.x), t.y, SnapCoord(t.z))

\* the camera keeps its radius within its limits on every frame
Clamp(v, lo, hi) == IF v < lo THEN lo ELSE IF v > hi THEN hi ELSE v

\* focusModel goes on past its guards: the scene references are set (cleared,
\* anchorsRef is empty and cameraRef and sceneRef are null), the anchor is
\* registered and has bounds
CanFocus(name) ==
  /\ host.sceneRefs
  /\ name \in DOMAIN anchors
  /\ ComputeWorldBounds(anchors[name]).ok

\* focusModel(name)
FocusModel(name) ==
  IF ~CanFocus(name)
  THEN UNCHANGED camVars
  ELSE LET b == ComputeWorldBounds(anchors[name])
       IN /\ cam' = [cam EXCEPT !.lowerRadiusLimit = DEFAULT_LOWER_RADIUS,
                                !.upperRadiusLimit = DEFAULT_UPPER_RADIUS]
          /\ anim' = AnimateCameraTo(cam, FocusTarget(b), FocusRadius(b))

\* a resetView without the test of cameraRef and sceneRef
ResetView_Unguarded ==
  /\ cam' = [cam EXCEPT !.lowerRadiusLimit = DEFAULT_LOWER_RADIUS,
                        !.upperRadiusLimit = DEFAULT_UPPER_RADIUS]
  /\ anim' = AnimateCameraTo(cam, Vec(0, ResetTargetY, 0), ResetRadius)

\* resetView(): if (!cameraRef || !sceneRef) return
ResetView ==
  IF ~host.sceneRefs
  THEN UNCHANGED camVars
  ELSE /\ cam' = [cam EXCEPT !.lowerRadiusLimit = DEFAULT_LOWER_RADIUS,
                             !.upperRadiusLimit = DEFAULT_UPPER_RADIUS]
       /\ anim' = AnimateCameraTo(cam, Vec(0, ResetTargetY, 0), ResetRadius)

\* op: the control called; running: an animation was running at the call;
\* started: the call began an animation
Call(name, started) == [op |-> name, running |-> anim # NoAnim, started |-> started]

\* a caller outside the canvas runs the exported focusModel(name)
CallFocusModel(name) ==
  /\ dispatch = <<>>
  /\ Len(calls) < MaxCalls
  /\ FocusModel(name)
  /\ calls' = Append(calls, Call(name, CanFocus(name)))
  /\ lastOp' = NoOp
  /\ UNCHANGED <<hoverVars, timerVars, pointerVars, dispatch, loadVars, wireframe, smVars, extVars>>

\* a caller outside the canvas runs the exported resetView()
CallResetView ==
  /\ dispatch = <<>>
  /\ Len(calls) < MaxCalls
  /\ ResetView
  /\ calls' = Append(calls, Call("resetView", host.sceneRefs))
  /\ lastOp' = NoOp
  /\ UNCHANGED <<hoverVars, timerVars, pointerVars, dispatch, loadVars, wireframe, smVars, extVars>>

\* toggleWireframe(enabled): if (!sceneRef) return; else every material of
\* the scene's meshes
ToggleWireframe(enabled) ==
  /\ dispatch = <<>>
  /\ wireframe' = IF host.sceneRefs THEN enabled ELSE wireframe
  /\ lastOp' = NoOp
  /\ UNCHANGED <<hoverVars, timerVars, pointerVars, dispatch, camVars, loadVars, calls, smVars, extVars>>

Lerp(a, b, f) == a + ((b - a) * f) \div TotalFrames
VLerp(a, b, f) == Vec(Lerp(a.x, b.x, f), Lerp(a.y, b.y, f), Lerp(a.z, b.z, f))

NextFrame(f) == IF f + FrameStep >= TotalFrames THEN TotalFrames ELSE f + FrameStep
Running(a) == a.frame < TotalFrames

\* one frame of the render loop: every running animatable advances and
\* writes the camera in the order begun, the ones at totalFrames end, then
\* the camera applies its radius limits and applySnap runs
AnimTick ==
  /\ dispatch = <<>>
  /\ anim # NoAnim
  /\ LET adv == [k \in 1..Len(anim) |-> [anim[k] EXCEPT !.frame = NextFrame(@)]]
         a == adv[Len(adv)]
     IN /\ cam' = [cam EXCEPT
                     !.target = ApplySnap(VLerp(a.fromT, a.toT, a.frame)),
                     !.radius = Clamp(Lerp(a.fromR, a.toR, a.frame),
                                      cam.lowerRadiusLimit, cam.upperRadiusLimit)]
        /\ anim' = SelectSeq(adv, Running)
  /\ lastOp' = NoOp
  /\ UNCHANGED <<smVars, ctlVars, extVars>>
  /\ UNCHANGED <<hoverVars, timerVars, pointerVars, dispatch, loadVars>>

\* ------------------------------------------------ hover and pick handlers
\* plain marks the pick of a plain click: the press found the controller
\* idle and the release followed it with nothing in between
Event(type, mesh) == [type |-> type, mesh |-> mesh, plain |-> FALSE]

\* meshes the engine's pointer picking reports to an ActionManager
Pickable == {m \in handlers : configs[m[1]].pickable}

\* "pointermove": the engine picks the mesh under the pointer; when it
\* changed, OnPointerOut of the old mesh runs before OnPointerOver of the new
PointerMove(to) ==
  /\ dispatch = <<>>
  /\ to \in Pickable \cup {NoMesh}
  /\ to # pointerOverMesh
  /\ pointerOverMesh' = to
  /\ dispatch' =
       (IF pointerOverMesh # NoMesh THEN <<Event("out", pointerOverMesh)>> ELSE <<>>)
       \o (IF to # NoMesh THEN <<Event("over", to)>> ELSE <<>>)
  /\ lastOp' = NoOp
  /\ UNCHANGED <<smVars, ctlVars, extVars>>
  /\ UNCHANGED <<hoverVars, timerVars, pointersDown, focused, camVars, loadVars>>

\* "pointerup" without drag over a pickable mesh: the engine's listener runs
\* OnPickTrigger, then the canvas listener handlePointerUp runs
ClickRelease(p) ==
  /\ dispatch = <<>>
  /\ p \in pointersDown
  /\ pointerOverMesh # NoMesh
  /\ focused < MaxFocus
  /\ pointersDown' = pointersDown \ {p}
  /\ dispatch' =
       << [Event("pick", pointerOverMesh) EXCEPT
             !.plain = (lastOp.op = "pointerdown" /\ ~lastOp.interacting)],
          Event("up", NoMesh) >>
  /\ lastOp' = NoOp
  /\ UNCHANGED <<smVars, ctlVars, extVars>>
  /\ UNCHANGED <<hoverVars, timerVars, pointerOverMesh, focused, camVars, loadVars>>

\* an over handler that does not clear the previously hovered mesh
OverHandler_KeepPrevious(mesh) ==
  IF isInteracting \/ lastHoveredMesh = mesh
  THEN UNCHANGED hoverVars
  ELSE /\ lastHoveredMesh' = mesh
       /\ renderOutline' = [renderOutline EXCEPT ![mesh] = TRUE]
       /\ cursor' = "pointer"

\* an over handler without the isInteracting guard
OverHandler_Unguarded(mesh) ==
  IF lastHoveredMesh = mesh
  THEN UNCHANGED hoverVars
  ELSE /\ lastHoveredMesh' = mesh
       /\ renderOutline' = [k \in MeshIds |->
            IF k = mesh THEN TRUE
            ELSE IF k = lastHoveredMesh THEN FALSE ELSE renderOutline[k]]
       /\ cursor' = "pointer"

\* body of the OnPointerOverTrigger action of mesh
OverHandler(mesh) ==
  IF isInteracting \/ lastHoveredMesh = mesh
  THEN UNCHANGED hoverVars
  ELSE /\ lastHoveredMesh' = mesh
       /\ renderOutline' = [k \in MeshIds |->
            IF k = mesh THEN TRUE
            ELSE IF k = lastHoveredMesh THEN FALSE ELSE renderOutline[k]]
       /\ cursor' = "pointer"

\* body of the OnPointerOutTrigger action of mesh
OutHandler(mesh) ==
  IF isInteracting
  THEN UNCHANGED hoverVars
  ELSE /\ lastHoveredMesh' = IF lastHoveredMesh = mesh THEN NoMesh ELSE lastHoveredMesh
       /\ renderOutline' = [renderOutline EXCEPT ![mesh] = FALSE]
       /\ cursor' = "default"

\* a pick handler without the isInteracting guard
PickHandler_Unguarded(mesh) == FocusModel(configs[mesh[1]].name)

\* body of the OnPickTrigger action of a mesh of model cfg
PickHandler(mesh) ==
  IF ~isInteracting
  THEN FocusModel(configs[mesh[1]].name)
  ELSE UNCHANGED camVars

Delivering(type) == dispatch # <<>> /\ Head(dispatch).type = type

OnPointerOver ==
  /\ Delivering("over")
  /\ OverHandler(Head(dispatch).mesh)
  /\ dispatch' = Tail(dispatch)
  /\ lastOp' = Op("over", Head(dispatch).mesh)
  /\ UNCHANGED <<smVars, ctlVars, extVars>>
  /\ UNCHANGED <<timerVars, pointerVars, camVars, loadVars>>

OnPointerOut ==
  /\ Delivering("out")
  /\ OutHandler(Head(dispatch).mesh)
  /\ dispatch' = Tail(dispatch)
  /\ lastOp' = Op("out", Head(dispatch).mesh)
  /\ UNCHANGED <<smVars, ctlVars, extVars>>
  /\ UNCHANGED <<timerVars, pointerVars, camVars, loadVars>>

OnPick ==
  /\ Delivering("pick")
  /\ PickHandler(Head(dispatch).mesh)
  /\ dispatch' = Tail(dispatch)
  /\ focused' = IF <<cam, anim>>' # <<cam, anim>> THEN focused + 1 ELSE focused
  /\ lastOp' = Op(IF Head(dispatch).plain THEN "click" ELSE "pick", Head(dispatch).mesh)
  /\ UNCHANGED <<smVars, ctlVars, extVars>>
  /\ UNCHANGED <<hoverVars, timerVars, pointersDown, pointerOverMesh, loadVars>>

\* the canvas listener of the "pointerup" that delivered a pick
OnPointerUp ==
  /\ Delivering("up")
  /\ HandlePointerUp
  /\ dispatch' = Tail(dispatch)
  /\ lastOp' = NoOp
  /\ UNCHANGED <<smVars, ctlVars, extVars>>
  /\ UNCHANGED <<hoverVars, pointerVars, camVars, loadVars>>

\* ------------------------------------------------------------ loadModels
InFlight == {i \in ModelIdx : status[i] \in {"loading", "whenReady"}}

\* a loop that starts every load without awaiting the one before
LoopAt_NoAwait(i) == TRUE

\* the for..of loop reaches cfg i only after the iterations before it ended:
\* each iteration awaits its load inside the loop body
LoopAt(i) == ldIdx = i

\* for (const cfg of configs) { try { await LoadAssetContainerAsync(...)
StartLoad(i) ==
  /\ dispatch = <<>>
  /\ LoopAt(i)
  /\ status[i] = "pending"
  /\ status' = [status EXCEPT ![i] = "loading"]
  /\ lastOp' = NoOp
  /\ UNCHANGED <<smVars, ctlVars, extVars>>
  /\ UNCHANGED <<hoverVars, timerVars, pointerVars, dispatch, camVars,
                 ldIdx, assets, anchors, handlers, configs, sceneNodes>>

RECURSIVE SumAxis(_, _, _)
SumAxis(reg, names, axis) ==
  IF names = {} THEN 0
  ELSE LET k == CHOOSE k \in names : TRUE
       IN reg[k].position[axis] + SumAxis(reg, names \ {k}, axis)

\* after the loop: frame the camera on the mean of the registered anchors
FinalFrame(reg) ==
  LET names == DOMAIN reg
      cnt == Cardinality(names)
      target == IF cnt > 0
                THEN Vec(SumAxis(reg, names, "x") \div cnt, InitTargetY,
                         SumAxis(reg, names, "z") \div cnt)
                ELSE cam.target
  IN cam' = [cam EXCEPT !.target = target, !.radius = InitRadius]

\* the iteration of cfg i ends with anchors reg registered: the loop moves
\* on, and past the last cfg the code after the loop runs in the same turn
EndIteration(i, reg) ==
  /\ ldIdx' = ldIdx + 1
  /\ IF i = Len(configs) THEN FinalFrame(reg) ELSE UNCHANGED cam

\* the load resolves with n meshes that have geometry, of raw bounds box:
\* addAllToScene, UV repair, then `continue` when nothing has geometry, else
\* await scene.whenReadyAsync()
LoadResolve(i, n, box) ==
  /\ dispatch = <<>>
  /\ status[i] = "loading"
  /\ assets' = [assets EXCEPT ![i] = IF n = 0 THEN NoAsset ELSE [n |-> n, box |-> box]]
  /\ status' = [status EXCEPT ![i] = IF n = 0 THEN "skipped" ELSE "whenReady"]
  /\ IF n = 0 THEN EndIteration(i, anchors) ELSE UNCHANGED <<ldIdx, cam>>
  /\ lastOp' = NoOp
  /\ UNCHANGED <<smVars, ctlVars, extVars>>
  /\ UNCHANGED <<hoverVars, timerVars, pointerVars, dispatch, anim, anchors, handlers,
                 configs, sceneNodes>>

\* a load whose rejection escapes the loop: loadModels ends there
LoadReject_Abort(i) ==
  /\ dispatch = <<>>
  /\ status[i] = "loading"
  /\ status' = [status EXCEPT ![i] = "failed"]
  /\ ldIdx' = Len(configs) + 1
  /\ lastOp' = NoOp
  /\ UNCHANGED <<smVars, ctlVars, extVars>>
  /\ UNCHANGED <<hoverVars, timerVars, pointerVars, dispatch, camVars,
                 assets, anchors, handlers, configs, sceneNodes>>

\* the load rejects: catch { } and the loop goes on
LoadReject(i) ==
  /\ dispatch = <<>>
  /\ status[i] = "loading"
  /\ status' = [status EXCEPT ![i] = "failed"]
  /\ EndIteration(i, anchors)
  /\ lastOp' = NoOp
  /\ UNCHANGED <<smVars, ctlVars, extVars>>
  /\ UNCHANGED <<hoverVars, timerVars, pointerVars, dispatch, anim,
                 assets, anchors, handlers, configs, sceneNodes>>

\* a chain whose offset centres the model on Y as well
AnchorChain_CenterY(cfg, asset) ==
  LET min == asset.box.min
      max == asset.box.max
      rawSize == VSub(max, min)
      maxDim == Max3(rawSize.x, rawSize.y, rawSize.z)
      rawCenter == VHalf(VAdd(min, max))
  IN [position |-> cfg.position,
      rotY |-> cfg.rotY,
      scale |-> [num |-> cfg.fitSize, den |-> maxDim],
      offset |-> Vec(0 - rawCenter.x, 0 - rawCenter.y, 0 - rawCenter.z),
      box |-> asset.box,
      n |-> asset.n]

\* the anchor -> scaler -> offset chain loadModels builds for cfg
AnchorChain(cfg, asset) ==
  LET min == asset.box.min
      max == asset.box.max
      rawSize == VSub(max, min)
      maxDim == Max3(rawSize.x, rawSize.y, rawSize.z)
      rawCenter == VHalf(VAdd(min, max))
  IN [position |-> cfg.position,
      rotY |-> cfg.rotY,
      scale |-> [num |-> cfg.fitSize, den |-> maxDim],
      offset |-> Vec(0 - rawCenter.x, 0 - min.y, 0 - rawCenter.z),
      box |-> asset.box,
      n |-> asset.n]

Register(reg, name, chain) ==
  [k \in DOMAIN reg \cup {name} |-> IF k = name THEN chain ELSE reg[k]]

NoNode == [n |-> 0]

\* a load that reuses one chain of nodes for every model loaded so far
CreateChain_Shared(nodes, i, chain) ==
  [k \in DOMAIN nodes |-> IF k = i \/ nodes[k] # NoNode THEN chain ELSE nodes[k]]

\* new TransformNode anchor / scaler / offset for descriptor i: fresh nodes,
\* the nodes of the other loads are not touched
CreateChain(nodes, i, chain) == [nodes EXCEPT ![i] = chain]

\* the scene is ready: materials, bounds, anchor chain, reparenting and the
\* ActionManager of every mesh with geometry; the iteration ends
SceneReady(i) ==
  /\ dispatch = <<>>
  /\ status[i] = "whenReady"
  /\ anchors' = Register(anchors, configs[i].name, AnchorChain(configs[i], assets[i]))
  /\ sceneNodes' = CreateChain(sceneNodes, i, AnchorChain(configs[i], assets[i]))
  /\ handlers' = handlers \cup {<<i, k>> : k \in 1..assets[i].n}
  /\ status' = [status EXCEPT ![i] = "done"]
  /\ EndIteration(i, anchors')
  /\ lastOp' = NoOp
  /\ UNCHANGED <<smVars, ctlVars, extVars>>
  /\ UNCHANGED <<hoverVars, timerVars, pointerVars, dispatch, anim, assets, configs>>

\* ------------------------------------------------ SceneManager.loadModels
uiVars == <<hoverVars, timerVars, pointerVars, dispatch, camVars, loadVars, lastOp, ctlVars>>

SMInFlight == {i \in ModelIdx : smStatus[i] = "loading"}

\* the for..of loop of SceneManager.loadModels reaches cfg i
SMLoopAt(i) == smIdx = i

\* for (const cfg of configs) { if (this.anchors[cfg.name]) continue;
\*   try { await LoadAssetContainerAsync(...)
SMStartLoad(i) ==
  /\ SMLoopAt(i)
  /\ smStatus[i] = "pending"
  /\ IF configs[i].name \in DOMAIN smAnchors
     THEN /\ smStatus' = [smStatus EXCEPT ![i] = "skipped"]
          /\ smIdx' = smIdx + 1
     ELSE /\ smStatus' = [smStatus EXCEPT ![i] = "loading"]
          /\ smIdx' = smIdx
  /\ UNCHANGED <<smAnchors, smCam, uiVars, extVars>>

\* the anchor and group SceneManager.loadModels builds: the group carries
\* rotation, scale and the scaled offset (a position in the anchor's frame)
SMChain(cfg, n, box) ==
  LET rawSize == VSub(box.max, box.min)
      maxDim == Max3(rawSize.x, rawSize.y, rawSize.z)
      scale == [num |-> cfg.fitSize, den |-> maxDim]
      rawCenter == VHalf(VAdd(box.min, box.max))
  IN [position |-> cfg.position,
      rotY |-> cfg.rotY,
      scale |-> scale,
      groupPos |-> IF Finite(scale)
                   THEN Vec(0 - Scaled(scale, rawCenter.x),
                            0 - Scaled(scale, box.min.y),
                            0 - Scaled(scale, rawCenter.z))
                   ELSE Vec(0, 0, 0),
      box |-> box,
      n |-> n]

\* the load resolves with n meshes of local bounds box: computeLocalBounds is
\* null without meshes (continue); else anchor, group and addAllToScene
SMLoadResolve(i, n, box) ==
  /\ smStatus[i] = "loading"
  /\ smStatus' = [smStatus EXCEPT ![i] = IF n = 0 THEN "skipped" ELSE "done"]
  /\ smAnchors' = IF n = 0 THEN smAnchors
                  ELSE Register(smAnchors, configs[i].name, SMChain(configs[i], n, box))
  /\ smIdx' = smIdx + 1
  /\ UNCHANGED <<smCam, uiVars, extVars>>

\* the load rejects: catch (e) { onError } and the loop goes on
SMLoadReject(i) ==
  /\ smStatus[i] = "loading"
  /\ smStatus' = [smStatus EXCEPT ![i] = "failed"]
  /\ smIdx' = smIdx + 1
  /\ UNCHANGED <<smAnchors, smCam, uiVars, extVars>>

\* SceneManager.computeWorldBounds(anchor)
SMWorldBounds(a) ==
  IF a.n = 0 \/ ~Finite(a.scale) THEN NoBounds
  ELSE LET S(v) == Scaled(a.scale, v)
           lx == IF a.rotY = 0 THEN S(a.box.min.x) ELSE S(a.box.min.z)
           hx == IF a.rotY = 0 THEN S(a.box.max.x) ELSE S(a.box.max.z)
           lz == IF a.rotY = 0 THEN S(a.box.min.z) ELSE 0 - S(a.box.max.x)
           hz == IF a.rotY = 0 THEN S(a.box.max.z) ELSE 0 - S(a.box.min.x)
           origin == VAdd(a.position, a.groupPos)
       IN [ok |-> TRUE,
           min |-> VAdd(origin, Vec(lx, S(a.box.min.y), lz)),
           max |-> VAdd(origin, Vec(hx, S(a.box.max.y), hz))]

Min2(a, b) == IF a <= b THEN a ELSE b
\* a Minimize that leaves the Z component of its first argument
VMin_NoZ(a, b) == Vec(Min2(a.x, b.x), Min2(a.y, b.y), a.z)

VMin(a, b) == Vec(Min2(a.x, b.x), Min2(a.y, b.y), Min2(a.z, b.z))
VMax(a, b) == Vec(Max2(a.x, b.x), Max2(a.y, b.y), Max2(a.z, b.z))

\* union of the world boxes of the anchors in names that have one
RECURSIVE UnionBounds(_, _)
UnionBounds(reg, names) ==
  IF names = {} THEN NoBounds
  ELSE LET k == CHOOSE k \in names : TRUE
           b == SMWorldBounds(reg[k])
           rest == UnionBounds(reg, names \ {k})
       IN IF ~b.ok THEN rest
          ELSE IF ~rest.ok THEN b
          ELSE [ok |-> TRUE, min |-> VMin(b.min, rest.min), max |-> VMax(b.max, rest.max)]

\* frameAll(): default view without models, else the union box's framing
FrameAll(reg) ==
  LET u == UnionBounds(reg, DOMAIN reg)
  IN IF ~u.ok
     THEN [target |-> Vec(0, SMDefaultTargetY, 0), radius |-> InitRadius]
     ELSE LET size == VSub(u.max, u.min)
          IN [target |-> VHalf(VAdd(u.min, u.max)),
              radius |-> Max2((Max3(size.x, size.y, size.z) * 3) \div 2, SMMinRadius)]

\* SceneManager.focusModel(name): no animation, the camera is set at once
SMFocusModel(name) ==
  /\ name \in DOMAIN smAnchors
  /\ SMWorldBounds(smAnchors[name]).ok
  /\ LET b == SMWorldBounds(smAnchors[name])
         size == VSub(b.max, b.min)
     IN smCam' = [target |-> VHalf(VAdd(b.min, b.max)),
                  radius |-> Max2(Max3(size.x, size.y, size.z) * 2, SMMinFocusRadius)]
  /\ UNCHANGED <<smStatus, smIdx, smAnchors, uiVars, extVars>>

\* after the loop: this.frameAll()
SMFrameAll ==
  /\ smIdx = Len(configs) + 1
  /\ smIdx' = smIdx + 1
  /\ smCam' = FrameAll(smAnchors)
  /\ UNCHANGED <<smStatus, smAnchors, uiVars, extVars>>

\* ------------------------------------------------------- bounds functions
\* the IEEE value Infinity, above every coordinate; -Infinity is its
\* negative.  NaN is not among the coordinates of the boxes tried.
Infinity == 1000000
IsFinite(v) == v # Infinity /\ v # 0 - Infinity

\* bounding boxes a child mesh can have: three finite ones whose extremes
\* lie on different axes, one whose vertex data has an infinite Y and one
\* with an infinite X
FiniteBoxes ==
  { [min |-> Vec(0, 0, 0), max |-> Vec(2, 1, 1)],
    [min |-> Vec(-1, 2, 0), max |-> Vec(1, 3, 4)],
    [min |-> Vec(1, -2, -1), max |-> Vec(3, 0, 0)] }
MeshBoxes ==
  FiniteBoxes \cup
  { [min |-> Vec(0, 0, 0), max |-> Vec(1, Infinity, 1)],
    [min |-> Vec(0 - Infinity, 0, 0), max |-> Vec(1, 1, 1)] }

\* the lists of at most n elements of S
SeqsUpTo(S, n) == UNION {[1..k -> S] : k \in 0..n}

\* meshes.forEach: min = Vector3.Minimize(min, box.min), max =
\* Vector3.Maximize(max, box.max), from the k-th mesh on
RECURSIVE Accumulate(_, _, _)
Accumulate(boxes, k, acc) ==
  IF k > Len(boxes) THEN acc
  ELSE Accumulate(boxes, k + 1,
                  [min |-> VMin(acc.min, boxes[k].min),
                   max |-> VMax(acc.max, boxes[k].max)])

\* the accumulators start at +Infinity and -Infinity
Accumulated(boxes) ==
  Accumulate(boxes, 1,
             [min |-> Vec(Infinity, Infinity, Infinity),
              max |-> Vec(0 - Infinity, 0 - Infinity, 0 - Infinity)])

\* computeWorldBounds(node) and computeLocalBounds(node) on the boxes of the
\* node's child meshes: null without meshes or when min.x or max.x is not
\* finite
ComputeBounds(boxes) ==
  IF Len(boxes) = 0 THEN NoBounds
  ELSE LET acc == Accumulated(boxes)
       IN IF ~IsFinite(acc.min.x) \/ ~IsFinite(acc.max.x) THEN NoBounds
          ELSE [ok |-> TRUE, min |-> acc.min, max |-> acc.max]

NotCalled == [called |-> FALSE]
BoundsIdle == bMeshes = <<>> /\ bResult = NotCalled

\* a caller runs the bounds function on the node
CallComputeBounds ==
  /\ ~bResult.called
  /\ bResult' = [called |-> TRUE, value |-> ComputeBounds(bMeshes)]
  /\ UNCHANGED <<bMeshes, uvVars, lcVars, auxVars, uiVars, smVars>>

\* --------------------------------------------------------------- UV repair
\* a vertex buffer of the mesh: absent (getVerticesData gives null) or data
NoData == [present |-> FALSE]
Data(d) == [present |-> TRUE, data |-> d]

\* UV components are rationals num / den in lowest terms with den > 0; den
\* = 0 stands for the values that are not finite: NaN, Infinity, -Infinity
RECURSIVE GCD(_, _)
GCD(a, b) == IF b = 0 THEN a ELSE GCD(b, a % b)
Abs(n) == IF n < 0 THEN 0 - n ELSE n
Rat(n, d) ==
  IF n = 0 THEN [num |-> 0, den |-> 1]
  ELSE LET g == GCD(Abs(n), d) IN [num |-> n \div g, den |-> d \div g]
NaN == [num |-> 0, den |-> 0]
PosInf == [num |-> 1, den |-> 0]
NegInf == [num |-> 0 - 1, den |-> 0]

UV_KIND_ORDER == <<"uv", "uv2", "uv3", "uv4", "uv5", "uv6">>
UVKind == UV_KIND_ORDER[1]

\* a validity check that accepts texture coordinates of the unit square only
UVValid_Unit(v) == v.den # 0 /\ v.num >= 0 /\ v.num <= v.den

\* the negation of !isFinite(v) || v < -1 || v > 10
UVValid(v) == v.den # 0 /\ v.num >= 0 - v.den /\ v.num <= 10 * v.den

\* needsFix = !uvs || uvs.some(...)
NeedsFix(uvs) ==
  \/ ~uvs.present
  \/ \E k \in 1..Len(uvs.data) : ~UVValid(uvs.data[k])

\* a fallback order that tries the last channel first
FallbackOrder_Reversed ==
  <<UV_KIND_ORDER[6], UV_KIND_ORDER[5], UV_KIND_ORDER[4], UV_KIND_ORDER[3],
    UV_KIND_ORDER[2]>>

\* UV_KIND_ORDER.slice(1)
FallbackOrder == Tail(UV_KIND_ORDER)

\* the for..of over the fallback kinds: the position in order of the first
\* kind whose data is present and not empty, 0 when the loop ends without
RECURSIVE FirstNonEmpty(_, _, _)
FirstNonEmpty(uv, order, k) ==
  IF k > Len(order) THEN 0
  ELSE IF uv[order[k]].present /\ Len(uv[order[k]].data) > 0 THEN k
  ELSE FirstNonEmpty(uv, order, k + 1)

\* the loops over positions: if (x < minX) minX = x; if (x > maxX) maxX = x
RECURSIVE MinCoord(_, _, _, _)
MinCoord(ps, axis, k, acc) ==
  IF k > Len(ps) THEN acc
  ELSE MinCoord(ps, axis, k + 1, IF ps[k][axis] < acc THEN ps[k][axis] ELSE acc)
RECURSIVE MaxCoord(_, _, _, _)
MaxCoord(ps, axis, k, acc) ==
  IF k > Len(ps) THEN acc
  ELSE MaxCoord(ps, axis, k + 1, IF ps[k][axis] > acc THEN ps[k][axis] ELSE acc)

\* a - b in IEEE arithmetic, on coordinates that are finite or infinite
ExtSub(a, b) ==
  IF IsFinite(a) /\ IsFinite(b) THEN Rat(a - b, 1)
  ELSE IF a = b THEN NaN
  ELSE IF a = Infinity \/ b = 0 - Infinity THEN PosInf
  ELSE NegInf

\* a range without the fallback to 1
RangeOf_NoFallback(lo, hi) == ExtSub(hi, lo)

\* maxX - minX || 1: 0 and NaN are falsy
RangeOf(lo, hi) ==
  LET r == ExtSub(hi, lo)
  IN IF r = Rat(0, 1) \/ r = NaN THEN Rat(1, 1) ELSE r

\* a / r in IEEE arithmetic, for a difference a and a range r
ExtDiv(a, r) ==
  IF a = NaN \/ r = NaN THEN NaN
  ELSE IF r.den = 0
       THEN (IF a.den = 0 THEN NaN ELSE Rat(0, 1))
  ELSE IF r.num = 0
       THEN (IF a.num = 0 THEN NaN ELSE IF a.num > 0 THEN PosInf ELSE NegInf)
  ELSE IF a.den = 0 THEN a
  ELSE Rat(a.num * r.den, a.den * r.num)

\* the planar projection: newUVs[j] = (x - minX) / rangeX, newUVs[j + 1] =
\* (z - minZ) / rangeZ, for the vertices ps
Project(ps) ==
  LET minX == MinCoord(ps, "x", 1, Infinity)
      maxX == MaxCoord(ps, "x", 1, 0 - Infinity)
      minZ == MinCoord(ps, "z", 1, Infinity)
      maxZ == MaxCoord(ps, "z", 1, 0 - Infinity)
      rangeX == RangeOf(minX, maxX)
      rangeZ == RangeOf(minZ, maxZ)
  IN [j \in 1..(2 * Len(ps)) |->
        IF j % 2 = 1
        THEN ExtDiv(ExtSub(ps[(j + 1) \div 2].x, minX), rangeX)
        ELSE ExtDiv(ExtSub(ps[j \div 2].z, minZ), rangeZ)]

\* a store of the projection into the second channel
StoreProjection_UV2(uv, newUVs) ==
  [uv EXCEPT ![UV_KIND_ORDER[2]] = Data(newUVs)]

\* mesh.setVerticesData(VertexBuffer.UVKind, newUVs, false)
StoreProjection(uv, newUVs) == [uv EXCEPT ![UVKind] = Data(newUVs)]

\* the body of meshesWithGeom.forEach for one mesh m: the mesh afterwards,
\* the fallback kinds read, the kind adopted ("none" when none) and whether
\* the projection was written
RepairUVs(m) ==
  IF ~m.positions.present
  THEN [mesh |-> m, reads |-> {}, adopted |-> "none", fixed |-> FALSE]
  ELSE LET primary == m.uv[UVKind]
           fb == IF primary.present THEN 0
                 ELSE FirstNonEmpty(m.uv, FallbackOrder, 1)
           last == IF fb = 0 THEN Len(FallbackOrder) ELSE fb
           uvs == IF fb = 0 THEN primary ELSE m.uv[FallbackOrder[fb]]
           adoptedUV == IF fb = 0 THEN m.uv ELSE [m.uv EXCEPT ![UVKind] = uvs]
           fix == NeedsFix(uvs)
       IN [mesh |-> [m EXCEPT !.uv =
                       IF fix
                       THEN StoreProjection(adoptedUV, Project(m.positions.data))
                       ELSE adoptedUV],
           reads |-> IF primary.present THEN {}
                     ELSE {FallbackOrder[k] : k \in 1..last},
           adopted |-> IF fb = 0 THEN "none" ELSE FallbackOrder[fb],
           fixed |-> fix]

\* vertices (x, z) the position buffer can hold: the origin, (10, _, 5), two
\* in between, and one with an infinite X
Vertices ==
  { [x |-> 0, z |-> 0], [x |-> 10, z |-> 5], [x |-> 4, z |-> 5],
    [x |-> Infinity, z |-> 0] }

\* UV buffers: valid ones (one on the limits -1 and 10), one above 10, one
\* below -1, one with a component that is not finite
ValidUVs ==
  { <<Rat(1, 2), Rat(0, 1)>>, <<Rat(10, 1), Rat(0 - 1, 1)>>,
    <<Rat(1, 1), Rat(1, 1)>> }
InvalidUVs ==
  { <<Rat(11, 1), Rat(0, 1)>>, <<Rat(0, 1), Rat(0 - 2, 1)>>,
    <<Rat(0, 1), PosInf>> }

\* the meshes the repair is tried on
Meshes ==
  { [positions |-> ps, uv |-> uv] :
      ps \in {NoData} \cup {Data(d) : d \in SeqsUpTo(Vertices, MaxVertices) \ {<<>>}},
      uv \in { [k \in {UV_KIND_ORDER[i] : i \in 1..6} |->
                  CASE k = "uv" -> u1 [] k = "uv2" -> u2 [] k = "uv3" -> u3
                    [] k = "uv6" -> u6 [] OTHER -> NoData] :
                u1 \in {NoData, Data(<<>>)} \cup {Data(d) : d \in ValidUVs \cup InvalidUVs},
                u2 \in {NoData, Data(<<>>), Data(<<Rat(1, 2), Rat(0, 1)>>),
                        Data(<<Rat(11, 1), Rat(0, 1)>>)},
                u3 \in {NoData, Data(<<Rat(10, 1), Rat(0 - 1, 1)>>)},
                u6 \in {NoData, Data(<<Rat(1, 1), Rat(1, 1)>>)} } }

NoMeshData == [positions |-> NoData, uv |-> [k \in {UV_KIND_ORDER[i] : i \in 1..6} |-> NoData]]
UVIdle == uvMesh = NoMeshData /\ uvRuns = <<>>

\* loadModels runs the repair on the mesh
RunRepair ==
  /\ Len(uvRuns) < MaxRepairs
  /\ LET r == RepairUVs(uvMesh)
     IN /\ uvMesh' = r.mesh
        /\ uvRuns' = Append(uvRuns, [before |-> uvMesh, after |-> r.mesh,
                                     reads |-> r.reads, adopted |-> r.adopted,
                                     fixed |-> r.fixed])
  /\ UNCHANGED <<boundsVars, lcVars, auxVars, uiVars, smVars>>

\* ------------------------------------------------- mount, init, teardown
\* the listeners initScene registers on the window, the canvas and the camera
AllListeners ==
  {"resize", "pointerdown", "pointerup", "pointerleave", "wheel",
   "viewMatrixChanged"}

\* the component before its effect ran
HostIdle ==
  host = [effect |-> "none", phase |-> "idle", cleanupFn |-> FALSE,
          engineRef |-> FALSE, engineType |-> "unset", scene |-> FALSE,
          camera |-> FALSE, sceneRefs |-> FALSE, listeners |-> {},
          renderLoop |-> FALSE, disposed |-> FALSE, attempts |-> 0,
          tornInFlight |-> {}]

\* the component mounted, initScene at its await of loadModels
HostRunning ==
  /\ host = [effect |-> "mounted", phase |-> "loading", cleanupFn |-> FALSE,
             engineRef |-> TRUE, engineType |-> "WebGPU", scene |-> TRUE,
             camera |-> TRUE, sceneRefs |-> TRUE, listeners |-> AllListeners,
             renderLoop |-> TRUE, disposed |-> FALSE, attempts |-> 1,
             tornInFlight |-> {}]
  /\ smInit = [phase |-> "ready", inited |-> TRUE, engine |-> TRUE,
               scene |-> TRUE, errors |-> <<>>, calls |-> 1, attempts |-> 1]
  /\ gpu = TRUE

\* the mount effect: initScene(canvas) runs up to its first await.  Without
\* navigator.gpu it reports null and returns; the engine's constructor may
\* throw, which the catch reports the same way.
Mount(ctorThrows) ==
  /\ host.effect = "none"
  /\ ~host.engineRef
  /\ host' =
       IF ~gpu
       THEN [host EXCEPT !.effect = "mounted", !.engineType = "null",
                         !.phase = "failed"]
       ELSE IF ctorThrows
       THEN [host EXCEPT !.effect = "mounted", !.attempts = @ + 1,
                         !.engineType = "null", !.phase = "failed"]
       ELSE [host EXCEPT !.effect = "mounted", !.attempts = @ + 1,
                         !.phase = "initAsync"]
  /\ UNCHANGED <<smInit, gpu, boundsVars, uvVars, auxVars, uiVars, smVars>>

\* engine.initAsync() resolved: engineRef, engine type, scene, camera, scene
\* references, listeners and render loop, then loadModels is called
InitAsyncResolve ==
  /\ host.phase = "initAsync"
  /\ host' = [host EXCEPT !.engineRef = TRUE, !.engineType = "WebGPU",
                          !.scene = TRUE, !.camera = TRUE, !.sceneRefs = TRUE,
                          !.listeners = AllListeners, !.renderLoop = TRUE,
                          !.phase = "loading"]
  /\ UNCHANGED <<smInit, gpu, boundsVars, uvVars, auxVars, uiVars, smVars>>

\* a rejection that starts the engine again
InitAsyncReject_Retry ==
  /\ host.phase = "initAsync"
  /\ host.attempts < 2
  /\ host' = [host EXCEPT !.attempts = @ + 1]
  /\ UNCHANGED <<smInit, gpu, boundsVars, uvVars, auxVars, uiVars, smVars>>

\* engine.initAsync() rejected: catch { setEngineType(null); return }
InitAsyncReject ==
  /\ host.phase = "initAsync"
  /\ host' = [host EXCEPT !.engineType = "null", !.phase = "failed"]
  /\ UNCHANGED <<smInit, gpu, boundsVars, uvVars, auxVars, uiVars, smVars>>

\* loadModels returned (or threw into the catch): setSceneRefs again, the
\* cleanup function is returned and the effect's then callback stores it
InitSceneReturn ==
  /\ host.phase = "loading"
  /\ ldIdx = Len(configs) + 1
  /\ host' = [host EXCEPT !.sceneRefs = TRUE, !.cleanupFn = TRUE,
                          !.phase = "resolved"]
  /\ UNCHANGED <<smInit, gpu, boundsVars, uvVars, auxVars, uiVars, smVars>>

\* the cleanup function initScene returned
SceneCleanup(h) == [h EXCEPT !.listeners = {}]

\* the effect's cleanup on unmount: cleanupFn?.(), clearSceneRefs(), and
\* with an engine in engineRef stopRenderLoop(), dispose(), engineRef = null
\* (tornInFlight is history: the loads in flight at that moment)
Unmount ==
  /\ host.effect = "mounted"
  /\ LET h1 == IF host.cleanupFn THEN SceneCleanup(host) ELSE host
         h2 == [h1 EXCEPT !.sceneRefs = FALSE, !.effect = "cleaned",
                          !.tornInFlight = InFlight]
     IN host' = IF h2.engineRef
                THEN [h2 EXCEPT !.renderLoop = FALSE, !.disposed = TRUE,
                                !.engineRef = FALSE]
                ELSE h2
  /\ IF host.cleanupFn
     THEN /\ isInteracting' = FALSE
          /\ timers' = ClearTimeout(timers, interactionTimeout)
          /\ staleTimers' = staleTimers \cap ClearTimeout(timers, interactionTimeout)
          /\ interactionTimeout' = Null
          /\ lastHoveredMesh' = NoMesh
     ELSE UNCHANGED <<timerVars, lastHoveredMesh>>
  /\ UNCHANGED <<renderOutline, cursor, pointerVars, dispatch, camVars, loadVars,
                 lastOp, ctlVars, smVars, smInit, gpu, boundsVars, uvVars,
                 auxVars>>

\* the steps of loadModels, which run while initScene awaits it
HostLoadStep ==
  /\ host.phase = "loading"
  /\ \/ \E i \in ModelIdx : StartLoad(i)
     \/ \E i \in ModelIdx, n \in {0, MaxMeshes}, box \in RawBoxes : LoadResolve(i, n, box)
     \/ \E i \in ModelIdx : LoadReject(i)
     \/ \E i \in ModelIdx : SceneReady(i)

\* a caller runs SceneManager.init(canvas), up to its first await; calls
\* counts the calls and attempts the engines constructed
SMInit(ctorThrows) ==
  /\ smInit.phase \in {"idle", "failed"}
  /\ ~smInit.inited
  /\ smInit.calls < MaxCalls
  /\ smInit' =
       IF ~gpu
       THEN [smInit EXCEPT !.phase = "failed", !.calls = @ + 1,
               !.errors = Append(@, "WebGPU is not available in this browser/device.")]
       ELSE IF ctorThrows
       THEN [smInit EXCEPT !.phase = "failed", !.calls = @ + 1,
               !.attempts = @ + 1,
               !.errors = Append(@, "Failed to initialize WebGPU engine")]
       ELSE [smInit EXCEPT !.phase = "initAsync", !.inited = TRUE,
                           !.calls = @ + 1, !.attempts = @ + 1]
  /\ UNCHANGED <<host, gpu, boundsVars, uvVars, auxVars, uiVars, smVars>>

\* SceneManager.init: engine.initAsync() resolved
SMInitResolve ==
  /\ smInit.phase = "initAsync"
  /\ smInit' = [smInit EXCEPT !.phase = "ready", !.engine = TRUE, !.scene = TRUE]
  /\ UNCHANGED <<host, gpu, boundsVars, uvVars, auxVars, uiVars, smVars>>

\* SceneManager.init: engine.initAsync() rejected
SMInitReject ==
  /\ smInit.phase = "initAsync"
  /\ smInit' = [smInit EXCEPT !.phase = "failed", !.inited = FALSE,
               !.errors = Append(@, "Failed to initialize WebGPU engine")]
  /\ UNCHANGED <<host, gpu, boundsVars, uvVars, auxVars, uiVars, smVars>>

\* ------------------------------------------------ overlapping init calls
\* the mount effect runs again after its cleanup, on the same component (its
\* refs are kept): initScene(canvas) up to its first await.  overlapped is
\* history: the first call was still awaiting engine.initAsync()
Remount(ctorThrows) ==
  /\ host.effect = "cleaned"
  /\ second.phase = "none"
  /\ LET o == [second EXCEPT !.overlapped = (host.phase = "initAsync")]
     IN IF host.engineRef
        THEN /\ second' = [o EXCEPT !.phase = "returned"]
             /\ host' = [host EXCEPT !.effect = "remounted"]
        ELSE IF ~gpu
        THEN /\ second' = [o EXCEPT !.phase = "failed"]
             /\ host' = [host EXCEPT !.effect = "remounted", !.engineType = "null"]
        ELSE IF ctorThrows
        THEN /\ second' = [o EXCEPT !.phase = "failed", !.attempts = @ + 1]
             /\ host' = [host EXCEPT !.effect = "remounted", !.engineType = "null"]
        ELSE /\ second' = [o EXCEPT !.phase = "initAsync", !.attempts = @ + 1]
             /\ host' = [host EXCEPT !.effect = "remounted"]
  /\ UNCHANGED <<smInit, gpu, smCall2, snap, panel, boundsVars, uvVars, uiVars, smVars>>

\* the second call's engine.initAsync() resolved: engineRef, engine type,
\* scene, camera, scene references, listeners and its own render loop
SecondInitResolve ==
  /\ second.phase = "initAsync"
  /\ second' = [second EXCEPT !.phase = "running", !.renderLoop = TRUE]
  /\ host' = [host EXCEPT !.engineRef = TRUE, !.engineType = "WebGPU",
                          !.scene = TRUE, !.camera = TRUE, !.sceneRefs = TRUE,
                          !.listeners = AllListeners]
  /\ UNCHANGED <<smInit, gpu, smCall2, snap, panel, boundsVars, uvVars, uiVars, smVars>>

\* the second call's engine.initAsync() rejected
SecondInitReject ==
  /\ second.phase = "initAsync"
  /\ second' = [second EXCEPT !.phase = "failed"]
  /\ host' = [host EXCEPT !.engineType = "null"]
  /\ UNCHANGED <<smInit, gpu, smCall2, snap, panel, boundsVars, uvVars, uiVars, smVars>>

\* SceneManager.init called with inited set: if (this.inited) return
SMInitAgain ==
  /\ smInit.inited
  /\ smInit.calls < MaxCalls
  /\ smInit' = [smInit EXCEPT !.calls = @ + 1]
  /\ UNCHANGED <<host, gpu, auxVars, boundsVars, uvVars, uiVars, smVars>>

\* ----------------------------- SceneManager.loadModels, overlapping calls
\* a second call of loadModels(configs) on the same SceneManager, made while
\* the first may still be in its loop: the position of its for..of loop and
\* the progress of each of its iterations
\* second call: if (this.anchors[cfg.name]) continue; else the load starts
SM2StartLoad(i) ==
  /\ smCall2.idx = i
  /\ smCall2.status[i] = "pending"
  /\ smCall2' =
       IF configs[i].name \in DOMAIN smAnchors
       THEN [smCall2 EXCEPT !.status[i] = "skipped", !.idx = @ + 1]
       ELSE [smCall2 EXCEPT !.status[i] = "loading"]
  /\ UNCHANGED <<smVars, uiVars, boundsVars, uvVars, lcVars, second, snap, panel>>

\* second call: the load resolves; with measurable bounds a new anchor and
\* group are created and this.anchors[cfg.name] is assigned
SM2LoadResolve(i, n, box) ==
  /\ smCall2.status[i] = "loading"
  /\ smCall2' = [smCall2 EXCEPT !.status[i] = IF n = 0 THEN "skipped" ELSE "done",
                                !.idx = @ + 1]
  /\ smAnchors' = IF n = 0 THEN smAnchors
                  ELSE Register(smAnchors, configs[i].name, SMChain(configs[i], n, box))
  /\ UNCHANGED <<smStatus, smIdx, smCam, uiVars, boundsVars, uvVars, lcVars,
                 second, snap, panel>>

\* second call: the load rejects
SM2LoadReject(i) ==
  /\ smCall2.status[i] = "loading"
  /\ smCall2' = [smCall2 EXCEPT !.status[i] = "failed", !.idx = @ + 1]
  /\ UNCHANGED <<smVars, uiVars, boundsVars, uvVars, lcVars, second, snap, panel>>

\* second call, after its loop: this.frameAll()
SM2FrameAll ==
  /\ smCall2.idx = Len(configs) + 1
  /\ smCall2' = [smCall2 EXCEPT !.idx = @ + 1]
  /\ smCam' = FrameAll(smAnchors)
  /\ UNCHANGED <<smStatus, smIdx, smAnchors, uiVars, boundsVars, uvVars, lcVars,
                 second, snap, panel>>

\* ------------------------------------------------------------- applySnap
\* Math.round(n / d) for d > 0: the nearest integer, halves towards +Infinity
Round(n, d) == (2 * n + d) \div (2 * d)

\* a snap that forgets to scale the rounded quotient back
SnapValue_NoScale(v, s) == Round(v, s)

\* Math.round(v / snap) * snap
SnapValue(v, s) == Round(v, s) * s

\* applySnap with snapRef.current = s on a camera whose target is t: the new
\* target, and whether cam.setTarget was called
ApplySnapAt(s, t) ==
  IF s <= 0 THEN [target |-> t, set |-> FALSE]
  ELSE LET snappedX == SnapValue(t.x, s)
           snappedZ == SnapValue(t.z, s)
       IN IF snappedX # t.x \/ snappedZ # t.z
          THEN [target |-> Vec(snappedX, t.y, snappedZ), set |-> TRUE]
          ELSE [target |-> t, set |-> FALSE]

\* snap distances the store can hold and targets a pan can leave, in cm
SnapDistances == {-50, 0, 30, 50}
SnapCoords == {-75, -45, -10, 0, 15, 50}
SnapTargets == {Vec(x, y, z) : x \in SnapCoords, y \in {0, InitTargetY}, z \in SnapCoords}

\* setSnap(m) in the store; the effect copies snapMeters to snapRef.current
SetSnap(m) ==
  /\ m # snap.ref
  /\ snap' = [snap EXCEPT !.ref = m, !.streak = 0]
  /\ UNCHANGED <<second, smCall2, panel, boundsVars, uvVars, lcVars, uiVars, smVars>>

\* a pan or an animation moves the camera target: the view matrix changed
MoveTarget(t) ==
  /\ t # snap.target
  /\ snap' = [snap EXCEPT !.target = t, !.from = t, !.pending = TRUE, !.streak = 0]
  /\ UNCHANGED <<second, smCall2, panel, boundsVars, uvVars, lcVars, uiVars, smVars>>

\* onViewMatrixChangedObservable notifies applySnap; a setTarget in it changes
\* the view matrix again
RunApplySnap ==
  /\ snap.pending
  /\ snap.streak < MaxSnapRuns
  /\ LET r == ApplySnapAt(snap.ref, snap.target)
     IN snap' = [snap EXCEPT !.target = r.target, !.pending = r.set,
                             !.before = snap.target, !.streak = @ + 1]
  /\ UNCHANGED <<second, smCall2, panel, boundsVars, uvVars, lcVars, uiVars, smVars>>

\* --------------------------------------------------- ControlsPanel, FPS
\* milliseconds performance.now() can advance between two animation frames
FrameTimes == {300, 500, 700}

\* the FPS effect on mount: frameCount = 0, lastTime = now, and the first
\* requestAnimationFrame(measureFps), whose id the cleanup keeps as rafId
PanelMount ==
  /\ panel.effect = "none"
  /\ panel' = [panel EXCEPT !.effect = "mounted", !.frameCount = 0, !.elapsed = 0,
                            !.rafId = panel.nextId, !.frames = {panel.nextId},
                            !.nextId = @ + 1]
  /\ UNCHANGED <<second, smCall2, snap, boundsVars, uvVars, lcVars, uiVars, smVars>>

\* the browser runs the pending frame id, dt ms after the last one:
\* measureFps counts it, calls setFps once a second has passed since
\* lastTime, and requests the next frame (late is history: the setFps calls
\* made after the unmount)
MeasureFps(id, dt) ==
  /\ id \in panel.frames
  /\ panel.nextId <= MaxFrames
  /\ LET now == panel.elapsed + dt
         count == panel.frameCount + 1
         p == [panel EXCEPT !.frames = (@ \ {id}) \cup {panel.nextId},
                            !.nextId = @ + 1]
     IN panel' =
          IF now >= 1000
          THEN [p EXCEPT !.fps = count, !.frameCount = 0, !.elapsed = 0,
                         !.late = IF panel.effect = "cleaned" THEN @ + 1 ELSE @]
          ELSE [p EXCEPT !.frameCount = count, !.elapsed = now]
  /\ UNCHANGED <<second, smCall2, snap, boundsVars, uvVars, lcVars, uiVars, smVars>>

\* the effect's cleanup on unmount: cancelAnimationFrame(rafId)
PanelUnmount ==
  /\ panel.effect = "mounted"
  /\ panel' = [panel EXCEPT !.effect = "cleaned", !.frames = @ \ {panel.rafId}]
  /\ UNCHANGED <<second, smCall2, snap, boundsVars, uvVars, lcVars, uiVars, smVars>>

\* ------------------------------------------------------ before any of it
\* the effect has not run again; the second loadModels
\* call is at the head of its loop; snapRef is useRef(0), the camera at its
\* initial target with no view change to notify (from, before and streak are
\* history: the target the last pan left, the target before the last
\* applySnap, the applySnap runs since the last pan); the panel's effect has
\* not run
AuxIdle ==
  /\ second = [phase |-> "none", overlapped |-> FALSE, attempts |-> 0,
               renderLoop |-> FALSE]
  /\ smCall2 = [status |-> [i \in ModelIdx |-> "pending"], idx |-> 1]
  /\ snap = [ref |-> 0, target |-> Vec(0, InitTargetY, 0), pending |-> FALSE,
             from |-> Vec(0, InitTargetY, 0), before |-> Vec(0, InitTargetY, 0),
             streak |-> 0]
  /\ panel = [effect |-> "none", rafId |-> 0, frames |-> {}, nextId |-> 1,
              frameCount |-> 0, elapsed |-> 0, fps |-> 0, late |-> 0]

\* ------------------------------------------------------------------ spec
\* initScene up to the call of loadModels: listeners registered, camera
\* created, scene references set, nothing loaded
InitScene ==
  /\ isInteracting = FALSE
  /\ interactionTimeout = Null
  /\ lastHoveredMesh = NoMesh
  /\ timers = {}
  /\ staleTimers = {}
  /\ renderOutline = [m \in MeshIds |-> FALSE]
  /\ cursor = "default"
  /\ pointersDown = {}
  /\ pointerOverMesh = NoMesh
  /\ dispatch = <<>>
  /\ focused = 0
  /\ cam = [target |-> Vec(0, InitTargetY, 0), radius |-> InitRadius,
            lowerRadiusLimit |-> InitLowerRadius,
            upperRadiusLimit |-> InitUpperRadius]
  /\ anim = NoAnim
  /\ status = [i \in ModelIdx |-> "pending"]
  /\ ldIdx = 1
  /\ assets = [i \in ModelIdx |-> NoAsset]
  /\ anchors = <<>>
  /\ handlers = {}
  /\ configs = MODELS
  /\ sceneNodes = [i \in ModelIdx |-> NoNode]
  /\ calls = <<>>
  /\ wireframe = FALSE
  /\ lastOp = NoOp
  /\ smStatus = [i \in ModelIdx |-> "pending"]
  /\ smIdx = 1
  /\ smAnchors = <<>>
  /\ smCam = [target |-> Vec(0, InitTargetY, 0), radius |-> InitRadius]

\* CanvasHost mounted and initialized; no bounds function and no UV repair
\* has run
Init == InitScene /\ BoundsIdle /\ UVIdle /\ HostRunning /\ AuxIdle

Next ==
  \/ \E p \in Pointers : PointerDown(p)
  \/ \E p \in Pointers : PointerUp(p)
  \/ \E p \in Pointers : PointerLeave(p)
  \/ \E p \in Pointers : ClickRelease(p)
  \/ Wheel
  \/ \E t \in TimerIds : TimerFire(t)
  \/ \E m \in MeshIds \cup {NoMesh} : PointerMove(m)
  \/ OnPointerOver
  \/ OnPointerOut
  \/ OnPick
  \/ OnPointerUp
  \/ AnimTick
  \/ \E i \in ModelIdx : StartLoad(i)
  \/ \E i \in ModelIdx, n \in {0, MaxMeshes}, box \in RawBoxes : LoadResolve(i, n, box)
  \/ \E i \in ModelIdx : LoadReject(i)
  \/ \E i \in ModelIdx : SceneReady(i)

Spec == Init /\ [][Next]_vars

\* an over or out trigger of any pickable mesh, whatever the pointer did
Inject(type, mesh) ==
  /\ dispatch = <<>>
  /\ mesh \in Pickable
  /\ dispatch' = <<Event(type, mesh)>>
  /\ lastOp' = NoOp
  /\ UNCHANGED <<hoverVars, timerVars, pointerVars, camVars, loadVars, smVars, ctlVars, extVars>>

\* the viewer with the hover triggers delivered in any order
NextAnyOrder ==
  \/ Next
  \/ \E m \in MeshIds : Inject("over", m)
  \/ \E m \in MeshIds : Inject("out", m)

SpecAnyOrder == Init /\ [][NextAnyOrder]_vars

\* loadModels handed any of the descriptor lists
InitLoad ==
  \E cfgs \in ConfigLists :
    /\ configs = cfgs
    /\ isInteracting = FALSE
    /\ interactionTimeout = Null
    /\ lastHoveredMesh = NoMesh
    /\ timers = {}
    /\ staleTimers = {}
    /\ renderOutline = [m \in MeshIds |-> FALSE]
    /\ cursor = "default"
    /\ pointersDown = {}
    /\ pointerOverMesh = NoMesh
    /\ dispatch = <<>>
    /\ focused = 0
    /\ cam = [target |-> Vec(0, InitTargetY, 0), radius |-> InitRadius,
              lowerRadiusLimit |-> InitLowerRadius,
              upperRadiusLimit |-> InitUpperRadius]
    /\ anim = NoAnim
    /\ status = [i \in ModelIdx |-> "pending"]
    /\ ldIdx = 1
    /\ assets = [i \in ModelIdx |-> NoAsset]
    /\ anchors = <<>>
    /\ handlers = {}
    /\ sceneNodes = [i \in ModelIdx |-> NoNode]
    /\ calls = <<>>
    /\ wireframe = FALSE
    /\ lastOp = NoOp
    /\ smStatus = [i \in ModelIdx |-> "pending"]
    /\ smIdx = 1
    /\ smAnchors = <<>>
    /\ smCam = [target |-> Vec(0, InitTargetY, 0), radius |-> InitRadius]
    /\ BoundsIdle /\ UVIdle /\ HostRunning /\ AuxIdle

\* the two loaders alone: CanvasHost's loadModels and one call of
\* SceneManager.loadModels
NextLoad ==
  \/ \E i \in ModelIdx : StartLoad(i)
  \/ \E i \in ModelIdx, n \in {0, MaxMeshes}, box \in LoadBoxes : LoadResolve(i, n, box)
  \/ \E i \in ModelIdx : LoadReject(i)
  \/ \E i \in ModelIdx : SceneReady(i)
  \/ \E i \in ModelIdx : SMStartLoad(i)
  \/ \E i \in ModelIdx, n \in {0, MaxMeshes}, box \in LoadBoxes : SMLoadResolve(i, n, box)
  \/ \E i \in ModelIdx : SMLoadReject(i)
  \/ SMFrameAll
  \/ \E name \in ModelNames : SMFocusModel(name)

SpecLoad == InitLoad /\ [][NextLoad]_vars

\* the scene controls called from outside the canvas while CanvasHost's
\* loadModels runs on any of the descriptor lists
NextControls ==
  \/ \E i \in ModelIdx : StartLoad(i)
  \/ \E i \in ModelIdx, n \in {0, MaxMeshes}, box \in RawBoxes : LoadResolve(i, n, box)
  \/ \E i \in ModelIdx : LoadReject(i)
  \/ \E i \in ModelIdx : SceneReady(i)
  \/ \E name \in ModelNames : CallFocusModel(name)
  \/ CallResetView
  \/ \E enabled \in BOOLEAN : ToggleWireframe(enabled)
  \/ AnimTick

SpecControls == InitLoad /\ [][NextControls]_vars

\* a bounds function called on a node with any list of child-mesh boxes
InitBounds ==
  /\ InitScene /\ UVIdle /\ HostRunning /\ AuxIdle
  /\ bMeshes \in SeqsUpTo(MeshBoxes, MaxChildMeshes)
  /\ bResult = NotCalled

NextBounds == CallComputeBounds

SpecBounds == InitBounds /\ [][NextBounds]_vars

\* the UV repair run on any of the meshes, up to MaxRepairs times in a row
InitUV ==
  /\ InitScene /\ BoundsIdle /\ HostRunning /\ AuxIdle
  /\ uvMesh \in Meshes
  /\ uvRuns = <<>>

NextUV == RunRepair

SpecUV == InitUV /\ [][NextUV]_vars

\* the component from before its mount: init, loading and unmount in any
\* order, with or without navigator.gpu, and SceneManager.init
InitLifecycle ==
  /\ InitScene /\ BoundsIdle /\ UVIdle /\ AuxIdle
  /\ HostIdle
  /\ smInit = [phase |-> "idle", inited |-> FALSE, engine |-> FALSE,
               scene |-> FALSE, errors |-> <<>>, calls |-> 0, attempts |-> 0]
  /\ gpu \in BOOLEAN

NextLifecycle ==
  \/ \E ctorThrows \in BOOLEAN : Mount(ctorThrows)
  \/ InitAsyncResolve
  \/ InitAsyncReject
  \/ HostLoadStep
  \/ InitSceneReturn
  \/ Unmount
  \/ \E ctorThrows \in BOOLEAN : SMInit(ctorThrows)
  \/ SMInitResolve
  \/ SMInitReject

SpecLifecycle == InitLifecycle /\ [][NextLifecycle]_vars

\* the lifecycle with the effect run again after its cleanup and with
\* SceneManager.init called again at any time
NextReentry ==
  \/ NextLifecycle
  \/ \E ctorThrows \in BOOLEAN : Remount(ctorThrows)
  \/ SecondInitResolve
  \/ SecondInitReject
  \/ SMInitAgain

SpecReentry == InitLifecycle /\ [][NextReentry]_vars

\* two calls of SceneManager.loadModels on any of the descriptor lists, the
\* second made at any point of the first
NextSMOverlap ==
  \/ \E i \in ModelIdx : SMStartLoad(i)
  \/ \E i \in ModelIdx, n \in {0, MaxMeshes}, box \in LoadBoxes : SMLoadResolve(i, n, box)
  \/ \E i \in ModelIdx : SMLoadReject(i)
  \/ SMFrameAll
  \/ \E i \in ModelIdx : SM2StartLoad(i)
  \/ \E i \in ModelIdx, n \in {0, MaxMeshes}, box \in LoadBoxes : SM2LoadResolve(i, n, box)
  \/ \E i \in ModelIdx : SM2LoadReject(i)
  \/ SM2FrameAll

SpecSMOverlap == InitLoad /\ [][NextSMOverlap]_vars

\* applySnap under any snap distance and any movement of the camera target
NextSnap ==
  \/ \E m \in SnapDistances : SetSnap(m)
  \/ \E t \in SnapTargets : MoveTarget(t)
  \/ RunApplySnap

SpecSnap == Init /\ [][NextSnap]_vars

\* the ControlsPanel mounted, its frames run, and unmounted at any point
NextPanel ==
  \/ PanelMount
  \/ \E id \in 1..MaxFrames, dt \in FrameTimes : MeasureFps(id, dt)
  \/ PanelUnmount

SpecPanel == Init /\ [][NextPanel]_vars

\* the scene controls called at any time before and after the unmount of
\* the canvas host, whose initScene is at its await of loadModels
NextTeardownControls ==
  \/ NextControls
  \/ Unmount
  \/ InitSceneReturn

SpecTeardownControls == InitLoad /\ [][NextTeardownControls]_vars

\* fairness: an expired timeout's callback runs between event dispatches, and
\* the listeners of the event being dispatched run to the end
FairSpec ==
  /\ Spec
  /\ SF_vars(\E t \in TimerIds : TimerFire(t))
  /\ WF_vars(OnPointerOver \/ OnPointerOut \/ OnPick \/ OnPointerUp)

\* ================================================================ claims
Highlighted == {m \in MeshIds : renderOutline[m]}
BoundsOf(mesh) ==
  IF configs[mesh[1]].name \in DOMAIN anchors
  THEN ComputeWorldBounds(anchors[configs[mesh[1]].name])
  ELSE NoBounds

\* C1: hover exclusivity -- in every reachable state, for any order of over
\* and out triggers, at most one mesh has renderOutline set, and a mesh that
\* has it is lastHoveredMesh.
C1_HoverExclusive ==
  /\ Cardinality(Highlighted) <= 1
  /\ \A m \in Highlighted : m = lastHoveredMesh

\* C1 witness: an over handler just moved the highlight to a mesh of the
\* second model while the first model's mesh has a handler too.
C1_Witness ==
  /\ lastOp.op = "over"
  /\ lastOp.mesh[1] = 2
  /\ lastHoveredMesh = lastOp.mesh
  /\ renderOutline[lastOp.mesh]
  /\ \E m \in handlers : m[1] = 1

\* C2 (as claimed): after the Pick of a plain click (press with the
\* controller idle, release with nothing in between) on a mesh whose model
\* has measurable bounds, a camera animation to that model's framing has
\* just been started.
C2_ClickFocuses ==
  (lastOp.op = "click" /\ BoundsOf(lastOp.mesh).ok) =>
    /\ Len(anim) = 1
    /\ anim[1].frame = 0
    /\ anim[1].toT = FocusTarget(BoundsOf(lastOp.mesh))
    /\ anim[1].toR = FocusRadius(BoundsOf(lastOp.mesh))

\* C3: an OnPointerOver handler that runs while isInteracting is true
\* changes neither lastHoveredMesh, any renderOutline, nor the cursor.
C3_OverSuppressed ==
  [][(OnPointerOver /\ isInteracting) => UNCHANGED hoverVars]_vars

\* C3 witness: an over handler ran while interacting, on a mesh that was
\* not the hovered one.
C3_Witness ==
  /\ lastOp.op = "over"
  /\ lastOp.interacting
  /\ lastHoveredMesh # lastOp.mesh

\* C4: no stale debounce callback -- no pending timeout was armed before the
\* latest setInteracting(true), and whenever the flag goes from true to
\* false the step is the callback of a timeout armed at or after it.
C4_NoStaleClear ==
  [][/\ staleTimers' = {}
     /\ (isInteracting /\ ~isInteracting') =>
          \E t \in timers \ staleTimers : t \notin timers']_vars

\* C4 witness: the callback of a timeout armed after the flag was set has
\* cleared the flag while no pointer is down.
C4_Witness ==
  /\ lastOp.op = "timer"
  /\ lastOp.interacting
  /\ ~isInteracting
  /\ pointersDown = {}

\* C5: once a timeout is pending (a pointer-up, pointer-leave or wheel armed
\* it), eventually the flag is false with no timeout pending, unless a
\* pointer-down or wheel happens first.
C5_EventuallyIdle ==
  (timers # {}) ~>
     ((~isInteracting /\ timers = {} /\ interactionTimeout = Null)
      \/ lastOp.op \in {"pointerdown", "wheel"})

\* C5 witness: the callback of the pending timeout just ran: flag false, no
\* timeout pending.
C5_Witness ==
  /\ lastOp.op = "timer"
  /\ lastOp.interacting
  /\ ~isInteracting
  /\ timers = {}
  /\ interactionTimeout = Null

\* C6 (as claimed): whenever a pointer that went down on the canvas has not
\* been released, isInteracting is true.
C6_DragImpliesInteracting == (pointersDown # {}) => isInteracting

\* C7 (as claimed): after an OnPointerOver of mesh M that ran while not
\* interacting, M is the hovered mesh, M is the only highlighted mesh and
\* the cursor is "pointer".
C7_OverResult ==
  (lastOp.op = "over" /\ ~lastOp.interacting) =>
    /\ lastHoveredMesh = lastOp.mesh
    /\ Highlighted = {lastOp.mesh}
    /\ cursor = "pointer"

\* C8 (as claimed): an OnPointerOut that runs while not interacting for a
\* mesh other than the hovered one leaves lastHoveredMesh, the highlight of
\* the hovered mesh and the cursor unchanged; for the hovered mesh it leaves
\* no mesh hovered or highlighted and the cursor "default".
C8_OutOnlyHovered ==
  [][(OnPointerOut /\ ~isInteracting) =>
       IF Head(dispatch).mesh # lastHoveredMesh
       THEN /\ UNCHANGED <<lastHoveredMesh, cursor>>
            /\ (lastHoveredMesh # NoMesh =>
                  renderOutline'[lastHoveredMesh] = renderOutline[lastHoveredMesh])
       ELSE /\ lastHoveredMesh' = NoMesh
            /\ \A m \in MeshIds : ~renderOutline'[m]
            /\ cursor' = "default"]_vars

\* C9: OnPointerOut and OnPick handlers that run while isInteracting is true
\* change neither the hover state nor the camera, and start no animation.
C9_OutPickSuppressed ==
  [][((OnPointerOut \/ OnPick) /\ isInteracting) =>
       UNCHANGED <<hoverVars, camVars>>]_vars

\* C9 witness: a pick handler ran while interacting on a mesh whose model
\* could have been framed, and no animation runs.
C9_Witness ==
  /\ lastOp.op \in {"pick", "click"}
  /\ lastOp.interacting
  /\ BoundsOf(lastOp.mesh).ok
  /\ anim = NoAnim

Ended == {"done", "skipped", "failed"}

DistinctNames == \A i, j \in ModelIdx : configs[i].name = configs[j].name => i = j
NonDegenerate(box) ==
  LET size == VSub(box.max, box.min) IN Max3(size.x, size.y, size.z) > 0

\* C11: per-model failure isolation, for descriptor lists with distinct
\* names -- in both loaders the loop passes every model whether or not its
\* load threw, a model whose load threw has no nodes and no anchor
\* registered, and a model loaded with non-degenerate geometry has its
\* anchor registered under its name with bounds focusModel can frame.
C11_FailureIsolation ==
  DistinctNames =>
    /\ \A i \in ModelIdx :
         /\ ldIdx > i => status[i] \in Ended
         /\ status[i] = "failed" =>
              /\ ldIdx > i
              /\ sceneNodes[i] = NoNode
              /\ configs[i].name \notin DOMAIN anchors
         /\ (status[i] = "done" /\ NonDegenerate(assets[i].box)) =>
              /\ configs[i].name \in DOMAIN anchors
              /\ anchors[configs[i].name] = sceneNodes[i]
              /\ ComputeWorldBounds(anchors[configs[i].name]).ok
    /\ \A i \in ModelIdx :
         /\ smIdx > i => smStatus[i] \in Ended
         /\ smStatus[i] = "failed" =>
              /\ smIdx > i
              /\ configs[i].name \notin DOMAIN smAnchors
         /\ (smStatus[i] = "done" /\ NonDegenerate(smAnchors[configs[i].name].box)) =>
              SMWorldBounds(smAnchors[configs[i].name]).ok

\* C11 witness: in both loaders the first model's load threw and the second
\* model was then loaded and registered with bounds that can be framed.
C11_Witness ==
  /\ DistinctNames
  /\ status[1] = "failed" /\ status[2] = "done"
  /\ NonDegenerate(assets[2].box)
  /\ ComputeWorldBounds(anchors[configs[2].name]).ok
  /\ smStatus[1] = "failed" /\ smStatus[2] = "done"
  /\ SMWorldBounds(smAnchors[configs[2].name]).ok

\* C12 (as claimed): degenerate geometry is skipped -- a model whose raw
\* bounds have no extent gets no anchor chain, so every registered anchor of
\* either loader has a finite positive scale factor.
C12_DegenerateSkipped ==
  /\ \A i \in ModelIdx : sceneNodes[i] # NoNode => NonDegenerate(sceneNodes[i].box)
  /\ \A name \in DOMAIN anchors :
       Finite(anchors[name].scale) /\ anchors[name].scale.num > 0
  /\ \A name \in DOMAIN smAnchors :
       Finite(smAnchors[name].scale) /\ smAnchors[name].scale.num > 0

\* C13 (as claimed): duplicate names fail fast -- an anchor registered under
\* a name is never replaced by a later load, and an iteration that finds its
\* descriptor's name already registered ends in an error.
C13_DuplicateFailsFast ==
  [][/\ \A name \in DOMAIN anchors :
          name \in DOMAIN anchors' /\ anchors'[name] = anchors[name]
     /\ \A name \in DOMAIN smAnchors :
          name \in DOMAIN smAnchors' /\ smAnchors'[name] = smAnchors[name]
     /\ \A i \in ModelIdx :
          (configs[i].name \in DOMAIN anchors /\ status[i] # status'[i]
             /\ status'[i] \in Ended) => status'[i] = "failed"
     /\ \A i \in ModelIdx :
          (configs[i].name \in DOMAIN smAnchors /\ smStatus[i] # smStatus'[i]
             /\ smStatus'[i] \in Ended) => smStatus'[i] = "failed"]_vars

C16_Centered ==
  /\ \A i \in ModelIdx :
       (sceneNodes[i] # NoNode /\ NonDegenerate(sceneNodes[i].box)) =>
          LET b == ComputeWorldBounds(sceneNodes[i])
              c == VHalf(VAdd(b.min, b.max))
          IN c.x = configs[i].position.x /\ c.z = configs[i].position.z
  /\ \A name \in DOMAIN smAnchors :
       NonDegenerate(smAnchors[name].box) =>
          LET a == smAnchors[name]
              b == SMWorldBounds(a)
              c == VHalf(VAdd(b.min, b.max))
          IN c.x = a.position.x /\ c.z = a.position.z

\* ------------------------------------------------------- camera transitions
\* C17: a new framing request supersedes a running one -- at most one camera
\* animation is active at any time, and when focusModel("building") began an
\* animation and focusModel("bridge") began one before it completed, then
\* once no animation is running the camera target and radius are exactly
\* the bridge's framing.
C17_Supersedes ==
  /\ Len(anim) <= 1
  /\ (/\ Len(calls) = 2
      /\ calls[1].op = "building" /\ calls[1].started
      /\ calls[2].op = "bridge" /\ calls[2].started /\ calls[2].running
      /\ anim = NoAnim)
     => LET b == ComputeWorldBounds(anchors["bridge"])
        IN /\ cam.target = FocusTarget(b)
           /\ cam.radius = FocusRadius(b)

\* C17 witness: focusModel("bridge") was called while the animation begun by
\* focusModel("building") was running, and the animation has ended with the
\* camera on the bridge's framing.
C17_Witness ==
  /\ Len(calls) = 2
  /\ calls[1].op = "building" /\ calls[1].started
  /\ calls[2].op = "bridge" /\ calls[2].started /\ calls[2].running
  /\ anim = NoAnim
  /\ cam.target = FocusTarget(ComputeWorldBounds(anchors["bridge"]))

\* C18: the end radius of every camera transition is reachable -- the end
\* radius of every animation begun by focusModel or resetView lies within the
\* camera's [lowerRadiusLimit, upperRadiusLimit] set just before it began.
C18_EndRadiusReachable ==
  \A k \in 1..Len(anim) :
    /\ cam.lowerRadiusLimit <= anim[k].toR
    /\ anim[k].toR <= cam.upperRadiusLimit

\* C19: single-model framing -- whenever SceneManager.focusModel frames a
\* model with world bounds B, the camera target is the center of B with its Y
\* raised by max(0.1 * size.y, 1.5 m), and the radius is the largest extent
\* times the padding factor, never below the minimum radius.
C19_SingleModelFraming ==
  [][\A name \in ModelNames :
       SMFocusModel(name) =>
         LET b == SMWorldBounds(smAnchors[name])
             size == VSub(b.max, b.min)
         IN /\ smCam'.target = FocusTarget(b)
            /\ smCam'.radius =
                 Max2(Max3(size.x, size.y, size.z) * 2, SMMinFocusRadius)
            /\ smCam'.radius >= SMMinFocusRadius]_vars

\* union of the world boxes computeWorldBounds gives for the anchors in names
RECURSIVE WorldUnion(_, _)
WorldUnion(reg, names) ==
  IF names = {} THEN NoBounds
  ELSE LET k == CHOOSE k \in names : TRUE
           b == ComputeWorldBounds(reg[k])
           rest == WorldUnion(reg, names \ {k})
       IN IF ~b.ok THEN rest
          ELSE IF ~rest.ok THEN b
          ELSE [ok |-> TRUE, min |-> VMin(b.min, rest.min), max |-> VMax(b.max, rest.max)]

\* C20: whole-scene framing after loading uses the union of the world bounds
\* of all registered anchors -- when a loader's loop ends, the camera target
\* is the center of that union box (and SceneManager's radius comes from its
\* largest extent); with no anchor registered SceneManager's camera is at
\* the fixed default target and radius.
C20_WholeSceneFraming ==
  [][/\ (ldIdx = Len(configs) /\ ldIdx' = Len(configs) + 1) =>
          LET u == WorldUnion(anchors', DOMAIN anchors')
          IN u.ok => cam'.target = VHalf(VAdd(u.min, u.max))
     /\ SMFrameAll =>
          LET u == UnionBounds(smAnchors, DOMAIN smAnchors)
              size == VSub(u.max, u.min)
          IN IF u.ok
             THEN /\ smCam'.target = VHalf(VAdd(u.min, u.max))
                  /\ smCam'.radius =
                       Max2((Max3(size.x, size.y, size.z) * 3) \div 2, SMMinRadius)
             ELSE smCam' = [target |-> Vec(0, SMDefaultTargetY, 0),
                            radius |-> InitRadius]]_vars

\* ---------------------------------------------------------- debounce timer
\* C30: at most one debounce timer is pending at any time -- there is at
\* most one scheduled timeout, interactionTimeout refers to it exactly when
\* it is pending, and a pointer-down leaves no timer pending.
C30_OneTimer ==
  /\ Cardinality(timers) <= 1
  /\ (timers = {} => interactionTimeout = Null)
  /\ (timers # {} => timers = {interactionTimeout})
  /\ (lastOp.op = "pointerdown" => timers = {})

\* C30 witness: a pointer-down found the flag still set by an earlier
\* interaction and left no timer pending.
C30_Witness ==
  /\ lastOp.op = "pointerdown"
  /\ lastOp.interacting
  /\ timers = {}
  /\ interactionTimeout = Null

\* ------------------------------------------------------- bounds functions
VecFinite(v) == IsFinite(v.x) /\ IsFinite(v.y) /\ IsFinite(v.z)

\* C21: the bounds function returns null when the mesh set is empty or when
\* any component of the accumulated min or max is not finite, and a box
\* otherwise; it never returns a box with a coordinate that is not finite.
C21_NullWhenNotFinite ==
  bResult.called =>
    LET acc == Accumulated(bMeshes)
    IN /\ ~bResult.value.ok <=>
            (bMeshes = <<>> \/ ~VecFinite(acc.min) \/ ~VecFinite(acc.max))
       /\ bResult.value.ok =>
            VecFinite(bResult.value.min) /\ VecFinite(bResult.value.max)

\* the least and greatest value the boxes have on an axis
LeastMin(boxes, axis) ==
  CHOOSE v \in {boxes[k].min[axis] : k \in 1..Len(boxes)} :
    \A k \in 1..Len(boxes) : v <= boxes[k].min[axis]
GreatestMax(boxes, axis) ==
  CHOOSE v \in {boxes[k].max[axis] : k \in 1..Len(boxes)} :
    \A k \in 1..Len(boxes) : v >= boxes[k].max[axis]

AllFiniteBoxes(boxes) == \A k \in 1..Len(boxes) : boxes[k] \in FiniteBoxes

\* C22: bounds correctness -- for a non-empty list of meshes with finite
\* boxes the bounds function returns, on every axis, the least of the boxes'
\* minima and the greatest of their maxima, whatever the order of the meshes.
C22_ExactBounds ==
  (bResult.called /\ bMeshes # <<>> /\ AllFiniteBoxes(bMeshes)) =>
    /\ bResult.value.ok
    /\ \A axis \in {"x", "y", "z"} :
         /\ bResult.value.min[axis] = LeastMin(bMeshes, axis)
         /\ bResult.value.max[axis] = GreatestMax(bMeshes, axis)

\* C22 witness: the function ran on three different finite boxes, and the
\* least X, Y and Z come from three different meshes.
C22_Witness ==
  /\ bResult.called
  /\ Len(bMeshes) = 3
  /\ AllFiniteBoxes(bMeshes)
  /\ bMeshes[1] # bMeshes[2] /\ bMeshes[2] # bMeshes[3] /\ bMeshes[1] # bMeshes[3]
  /\ bResult.value.ok
  /\ bResult.value.min = Vec(0 - 1, 0 - 2, 0 - 1)
  /\ bResult.value.max = Vec(3, 3, 4)

\* --------------------------------------------------------------- UV repair
FinitePositions(m) ==
  /\ m.positions.present
  /\ \A k \in 1..Len(m.positions.data) :
       IsFinite(m.positions.data[k].x) /\ IsFinite(m.positions.data[k].z)

\* C23: UV repair is idempotent -- a second run of the repair leaves the
\* primary UV buffer (and every other buffer) as the first run left it, and
\* on a mesh with finite positions the second run finds the UVs valid and
\* writes nothing.
C23_Idempotent ==
  \A k \in 2..Len(uvRuns) :
    /\ uvRuns[k].after.uv[UVKind] = uvRuns[1].after.uv[UVKind]
    /\ uvRuns[k].after = uvRuns[k].before
    /\ FinitePositions(uvRuns[k].before) =>
         (~uvRuns[k].fixed /\ uvRuns[k].adopted = "none")

\* C23 witness: the first run synthesized the UVs of a mesh with finite
\* positions, and a second run has left them alone.
C23_Witness ==
  /\ Len(uvRuns) = 2
  /\ FinitePositions(uvRuns[1].before)
  /\ uvRuns[1].fixed
  /\ uvRuns[1].after.uv[UVKind] # uvRuns[1].before.uv[UVKind]
  /\ ~uvRuns[2].fixed
  /\ uvMesh.uv[UVKind] = uvRuns[1].after.uv[UVKind]

InUnit(v) == v.den # 0 /\ v.num >= 0 /\ v.num <= v.den
Least(ps, k, axis) == \A j \in 1..Len(ps) : ps[k][axis] <= ps[j][axis]
Greatest(ps, k, axis) == \A j \in 1..Len(ps) : ps[k][axis] >= ps[j][axis]
Flat(ps, axis) == \A j, k \in 1..Len(ps) : ps[j][axis] = ps[k][axis]

WithinLimits(v) == v.den # 0 /\ v.num + v.den >= 0 /\ v.num <= 10 * v.den
AllWithinLimits(d) == \A k \in 1..Len(d) : WithinLimits(d[k])
NoFallbackData(m) ==
  \A i \in 2..6 :
    ~m.uv[UV_KIND_ORDER[i]].present \/ m.uv[UV_KIND_ORDER[i]].data = <<>>

\* C25: UVs are repaired only if missing or invalid -- a mesh whose primary
\* UV channel is present with every component finite and within [-1, 10]
\* keeps its UV buffer; a mesh whose UVs are absent, or whose primary channel
\* has a component that is not finite or lies outside [-1, 10], gets the
\* planar projection as its primary channel; a mesh without a position
\* buffer is not modified.
C25_RepairOnlyInvalid ==
  \A r \in 1..Len(uvRuns) :
    LET m == uvRuns[r].before
        n == uvRuns[r].after
        primary == m.uv[UVKind]
    IN /\ ~m.positions.present => n = m
       /\ (m.positions.present /\ primary.present /\ AllWithinLimits(primary.data))
            => n = m
       /\ (m.positions.present /\
           ((primary.present /\ ~AllWithinLimits(primary.data))
            \/ (~primary.present /\ NoFallbackData(m))))
            => /\ n.uv[UVKind] = Data(Project(m.positions.data))
               /\ \A i \in 2..6 : n.uv[UV_KIND_ORDER[i]] = m.uv[UV_KIND_ORDER[i]]
               /\ n.positions = m.positions

\* C25 witness: a run left alone a primary channel holding the limits 10 and
\* -1, on a mesh with positions.
C25_Witness ==
  /\ Len(uvRuns) >= 1
  /\ uvRuns[1].before.positions.present
  /\ uvRuns[1].before.uv[UVKind] = Data(<<Rat(10, 1), Rat(0 - 1, 1)>>)
  /\ uvRuns[1].after = uvRuns[1].before

\* the first fallback kind, in the order UV2..UV6, with data that is not empty
FirstFallback(m) ==
  IF NoFallbackData(m) THEN 0
  ELSE CHOOSE i \in 2..6 :
         /\ m.uv[UV_KIND_ORDER[i]].present /\ m.uv[UV_KIND_ORDER[i]].data # <<>>
         /\ \A j \in 2..(i - 1) :
              ~m.uv[UV_KIND_ORDER[j]].present \/ m.uv[UV_KIND_ORDER[j]].data = <<>>

\* C26: UV channel fallback -- when the primary channel is absent, UV2..UV6
\* are examined in that order and the first one that is not empty becomes
\* the primary channel (later channels are not read); the validity check is
\* then applied to the adopted data, which stays when valid and is replaced
\* by the projection when not; when the primary channel is present no
\* fallback channel is read.
C26_Fallback ==
  \A r \in 1..Len(uvRuns) :
    LET m == uvRuns[r].before
        n == uvRuns[r].after
        f == FirstFallback(m)
    IN m.positions.present =>
         /\ m.uv[UVKind].present =>
              (uvRuns[r].reads = {} /\ uvRuns[r].adopted = "none")
         /\ (~m.uv[UVKind].present /\ f # 0) =>
              /\ uvRuns[r].adopted = UV_KIND_ORDER[f]
              /\ uvRuns[r].reads = {UV_KIND_ORDER[i] : i \in 2..f}
              /\ n.uv[UVKind] =
                   IF AllWithinLimits(m.uv[UV_KIND_ORDER[f]].data)
                   THEN m.uv[UV_KIND_ORDER[f]]
                   ELSE Data(Project(m.positions.data))

\* C26 witness: the primary channel and UV2 were absent or empty, UV3 and
\* UV6 both had data, and UV3's became the primary channel.
C26_Witness ==
  /\ Len(uvRuns) >= 1
  /\ uvRuns[1].before.positions.present
  /\ ~uvRuns[1].before.uv[UVKind].present
  /\ uvRuns[1].before.uv["uv2"] = Data(<<>>)
  /\ uvRuns[1].before.uv["uv3"].present
  /\ uvRuns[1].before.uv["uv6"].present
  /\ uvRuns[1].adopted = "uv3"
  /\ uvMesh.uv[UVKind] = uvRuns[1].before.uv["uv3"]

\* ------------------------------------------------- mount, init, teardown
\* C27: teardown is complete for every interleaving with initialization --
\* once the canvas host is unmounted and no continuation of initScene is
\* pending, every listener is detached, the render loop is stopped and the
\* engine, if one was initialized, is disposed.
C27_TeardownComplete ==
  (host.effect = "cleaned" /\ host.phase \in {"failed", "resolved"}) =>
    /\ host.listeners = {}
    /\ ~host.renderLoop
    /\ host.engineType = "WebGPU" => host.disposed

\* C28: late-arriving loads do not touch a torn-down scene -- a continuation
\* of a load that was in flight when the scene was torn down adds nothing to
\* the scene, creates no anchor chain, registers nothing in the anchor
\* registry and leaves the camera alone.
C28_LateLoadInert ==
  [][\A i \in host.tornInFlight :
       status'[i] # status[i] =>
         /\ assets' = assets
         /\ sceneNodes' = sceneNodes
         /\ anchors' = anchors
         /\ handlers' = handlers
         /\ cam' = cam]_vars

\* C29: backend unavailability is reported and not retried -- initScene
\* constructs at most one engine; when navigator.gpu is absent or the engine
\* fails to initialize, the engine type is reported as null and there is no
\* scene, camera, listener, render loop, scene reference or engineRef and no
\* model load; SceneManager.init reports through onError, keeps no engine or
\* scene, and constructs at most one engine per call.
C29_BackendUnavailable ==
  /\ host.attempts <= 1
  /\ host.phase = "failed" =>
       /\ host.engineType = "null"
       /\ ~host.scene /\ ~host.camera /\ ~host.sceneRefs /\ ~host.engineRef
       /\ host.listeners = {} /\ ~host.renderLoop
       /\ ldIdx = 1 /\ \A i \in ModelIdx : status[i] = "pending"
  /\ smInit.attempts <= smInit.calls
  /\ smInit.phase = "failed" =>
       /\ smInit.errors # <<>>
       /\ ~smInit.engine /\ ~smInit.scene /\ ~smInit.inited

\* C29 witness: with navigator.gpu present the engine failed to initialize
\* in both initScene and SceneManager.init.
C29_Witness ==
  /\ gpu
  /\ host.phase = "failed" /\ host.attempts = 1 /\ host.engineType = "null"
  /\ smInit.phase = "failed" /\ smInit.attempts = 1
  /\ smInit.errors = <<"Failed to initialize WebGPU engine">>

\* ---------------------------------------------------- hover after a drag
\* C31: no stale highlight after a camera drag -- whenever isInteracting is
\* false and no over / out / pick handler is still to run, a mesh has
\* renderOutline set only if the pointer is over it.
C31_NoStaleHighlight ==
  (~isInteracting /\ dispatch = <<>>) =>
    \A m \in Highlighted : m = pointerOverMesh

\* ------------------------------------------- scene references, one engine
\* C32: scene references stay cleared after teardown -- once the effect's
\* cleanup has run clearSceneRefs, the module-level scene references are
\* cleared in every later state, whatever continuation of initScene or
\* loadModels runs afterwards.
C32_RefsStayCleared ==
  host.effect = "cleaned" => ~host.sceneRefs

\* C33: at most one engine per host -- an initScene call issued while the
\* first call was still awaiting engine.initAsync() constructs no engine and
\* starts no render loop; a SceneManager.init call issued while an earlier
\* call awaits engine.initAsync() constructs no engine.
C33_OneEngine ==
  /\ [](second.overlapped => (second.attempts = 0 /\ ~second.renderLoop))
  /\ [][(smInit.phase = "initAsync" /\ smInit'.calls # smInit.calls) =>
          smInit'.attempts = smInit.attempts]_vars

\* C34: SceneManager.loadModels creates at most one anchor node per model
\* name -- over two calls, overlapping or not, no two iterations whose
\* descriptors have the same name both create an anchor.
C34_OneAnchorPerName ==
  \A i, j \in ModelIdx :
    configs[i].name = configs[j].name =>
      /\ ~(smStatus[i] = "done" /\ smCall2.status[j] = "done")
      /\ i # j => /\ ~(smStatus[i] = "done" /\ smStatus[j] = "done")
                  /\ ~(smCall2.status[i] = "done" /\ smCall2.status[j] = "done")

\* ---------------------------------------------------------------- snapping
\* C35: camera-target snapping is idempotent and self-terminating -- with
\* snap distance s > 0, after applySnap the target's X and Z are multiples of
\* s and its Y is the one before; a second applySnap changes nothing and
\* leaves no view change to notify; with s <= 0 applySnap never changes the
\* target.
C35_SnapIdempotent ==
  /\ (snap.streak >= 1 /\ snap.ref > 0) =>
       /\ snap.target.x % snap.ref = 0
       /\ snap.target.z % snap.ref = 0
       /\ snap.target.y = snap.before.y
  /\ snap.streak >= 2 => (snap.target = snap.before /\ ~snap.pending)
  /\ (snap.streak >= 1 /\ snap.ref <= 0) =>
       (snap.target = snap.before /\ ~snap.pending)

\* C35 witness: with a snap distance of 30 cm a pan left the target off the
\* grid on both axes (X below zero), applySnap moved it and ran once more.
C35_Witness ==
  /\ snap.ref = 30
  /\ snap.streak = 2
  /\ snap.from.x < 0 /\ snap.from.x % 30 # 0 /\ snap.from.z % 30 # 0
  /\ snap.target # snap.from
  /\ snap.target.y = InitTargetY

\* --------------------------------------------------------------- FPS loop
\* C37: the FPS measurement loop stops on unmount -- once the ControlsPanel
\* is unmounted no animation frame of measureFps is pending (so none runs and
\* none is requested) and setFps has not been called since.
C37_FpsLoopStops ==
  panel.effect = "cleaned" => (panel.frames = {} /\ panel.late = 0)

\* ------------------------------------------- controls without a live target
\* the call named op finds what it needs: the scene references, and for
\* focusModel a registered anchor with measurable bounds
LiveTarget(op) ==
  /\ host.sceneRefs
  /\ op # "resetView" =>
       (op \in DOMAIN anchors /\ ComputeWorldBounds(anchors[op]).ok)

\* C36: scene controls are no-ops without a live target -- a focusModel call
\* for a name without registered anchor or whose anchor has no measurable
\* bounds, and any focusModel, resetView or toggleWireframe call made while
\* the scene references are cleared, leaves the camera target, radius and
\* radius limits, the running animation and every mesh as they were.
C36_NoLiveTargetNoOp ==
  [][/\ (calls' # calls /\ ~LiveTarget(calls'[Len(calls')].op)) =>
          UNCHANGED <<cam, anim, wireframe, renderOutline, assets, sceneNodes>>
     /\ ~host.sceneRefs => wireframe' = wireframe]_vars

\* C36 witness: focusModel("building") started an animation, the host was
\* unmounted, and a resetView called with the references cleared left the
\* limits focusModel had set and started nothing.
C36_Witness ==
  /\ host.effect = "cleaned" /\ ~host.sceneRefs
  /\ Len(calls) = 2
  /\ calls[1].op = "building" /\ calls[1].started
  /\ calls[2].op = "resetView" /\ ~calls[2].started
  /\ cam.upperRadiusLimit = DEFAULT_UPPER_RADIUS
  /\ Len(anim) <= 1
====
